---- MODULE Spec2Model ----
(***************************************************************************)
(* HR_Automation_System: the CV pipeline of hr_app.                        *)
(*   CVParser   (utils/cv_parser.py)  text extraction and cleaning         *)
(*   CVAnalyzer (utils/cv_parser.py)  field extraction and categorization  *)
(*   process_cv (views.py)            the single-document orchestration    *)
(*                                                                         *)
(* Text is a sequence of one-character strings.  Experience is a float in  *)
(* the code; it is counted here in twelfths of a year (months), the finest *)
(* grain extract_experience produces, so 5 years is 5 * Year.              *)
(***************************************************************************)
EXTENDS Integers, Sequences, FiniteSets, TLC

VARIABLES
    skills,            \* categorize_candidate: the skills argument
    experience_years,  \* categorize_candidate: the experience argument (months)
    category,          \* categorize_candidate: the returned name, NotCalled before
    text,              \* clean_extracted_text: the argument
    cleaned,           \* clean_extracted_text(text), NotCalled before the call
    cleaned_again,     \* clean_extracted_text(cleaned), NotCalled before the call
    available,         \* the libraries whose import succeeded (*_AVAILABLE)
    cv_file,           \* the document at file_path: how each library reads it
    file_extension,    \* extract_text: the file_extension argument
    extracted,         \* extract_text: what the call did (extractor NotCalled before)
    candidate,         \* the Candidate row
    categories,        \* the names of the Category rows
    file_on_disk,      \* os.path.exists(candidate.cv_file.path)
    field_text,        \* extract_skills, extract_experience: the text argument
    skill_list,        \* extract_skills(field_text), NotCalled before the call
    experience,        \* extract_experience: whether called, and the months returned
    name_found,        \* extract_name: whether called, and the name returned
    candidates,        \* the Candidate table: a sequence of rows, in id order
    bulk               \* categorize_candidates: the counters of the last request

classifyVars == <<skills, experience_years, category>>
cleanVars    == <<text, cleaned, cleaned_again>>
extractVars  == <<available, cv_file, file_extension, extracted>>
orchestratorVars == <<candidate, categories, file_on_disk>>
fieldVars == <<field_text, skill_list, experience, name_found>>
batchVars == <<candidates, bulk>>
vars == <<classifyVars, cleanVars, extractVars, orchestratorVars, fieldVars, batchVars>>

NotCalled == "<not called>"

\* The values the variables of a component hold while another is exercised.
CleanIdle == text = <<>> /\ cleaned = NotCalled /\ cleaned_again = NotCalled

NotMeasured == [called |-> FALSE, months |-> 0]

NotNamed == [called |-> FALSE, name |-> <<>>]

FieldIdle ==
    /\ field_text = <<>>
    /\ skill_list = NotCalled
    /\ experience = NotMeasured
    /\ name_found = NotNamed

\* No candidate in the table, no bulk request made.
NoBulk == [categorized_count |-> 0, error_count |-> 0, reported |-> FALSE]

BatchIdle == candidates = <<>> /\ bulk = NoBulk

ClassifyIdle == skills = {} /\ experience_years = 0 /\ category = NotCalled

\* extract_text has not been called: raised is its ValueError, propagated an
\* exception of a library leaving an extractor, attempted the PDF methods
\* entered, in order.
NotExtracted ==
    [raised |-> FALSE, extractor |-> NotCalled, text |-> <<>>,
     attempted |-> <<>>, propagated |-> FALSE]

ExtractIdle ==
    /\ available = {}
    /\ cv_file = [kind |-> "none"]
    /\ file_extension = <<>>
    /\ extracted = NotExtracted

\* Candidate.objects holds no row yet.
NoCandidate ==
    [exists |-> FALSE, name |-> <<>>, email |-> <<>>, phone |-> <<>>,
     stem |-> <<>>, ext |-> <<>>, raw_text |-> <<>>, skills |-> <<>>,
     experience_years |-> 0, education |-> <<>>, category |-> "None",
     is_processed |-> FALSE]

OrchestratorIdle ==
    /\ candidate = NoCandidate
    /\ categories = {}
    /\ file_on_disk = FALSE

(***************************************************************************)
(* Bounds of the model.                                                    *)
(***************************************************************************)
MaxSkills == 4             \* size of a skill collection passed to the classifier
MaxExperienceMonths == 61  \* largest experience passed to the classifier (months)
MaxTextLen == 5            \* length of a text passed to clean_extracted_text
MaxPages == 1              \* pages a PDF library reads from a document
MaxParagraphs == 2         \* paragraphs of a DOCX document
MaxCells == 1              \* table cells of a DOCX document
MaxSkillLines == 2          \* lines of a text given to extract_skills
MaxExperienceLines == 2     \* lines of a text given to extract_experience
MaxCvParagraphs == 3        \* paragraphs of an uploaded CV
MaxCandidates == 2          \* rows of the Candidate table
MaxNameLines == 6           \* lines of a text given to extract_name

Year == 12                 \* months per year: cv_parser.py line 306

(***************************************************************************)
(* CVAnalyzer.categorize_candidate                                         *)
(***************************************************************************)
\* The keys of SKILL_KEYWORDS, in dictionary order.
SkillTags ==
    <<"python", "java", "javascript", "sql", "excel", "ml", "data_analysis",
      "web_development", "cloud", "testing", "devops">>

\* Tags the rule predicates test that are no key of SKILL_KEYWORDS.
RuleOnlyTags == {"django", "flask", "r", "html"}

\* Every string a skill collection given to categorize_candidate may hold.
SkillUniverse == {SkillTags[i] : i \in 1..Len(SkillTags)} \cup RuleOnlyTags

\* The lambdas of category_rules; s is the skill collection (only ever
\* tested with `in`, so a set), e the experience in months.
SeniorPythonDeveloper(s, e) ==
    "python" \in s /\ e >= 5 * Year /\ ("django" \in s \/ "flask" \in s)

PythonDeveloper(s, e) ==
    "python" \in s /\ ("django" \in s \/ "flask" \in s)

DataScientist(s, e) ==
    "ml" \in s /\ ("python" \in s \/ "r" \in s) /\ e >= 2 * Year

DataAnalyst_NeedsExperience(s, e) ==
    (("excel" \in s /\ "sql" \in s) \/ "data_analysis" \in s) /\ e >= 1 * Year

DataAnalyst(s, e) ==
    ("excel" \in s /\ "sql" \in s) \/ "data_analysis" \in s

SeniorJavaDeveloper(s, e) == "java" \in s /\ e >= 5 * Year

JavaDeveloper(s, e) == "java" \in s /\ e >= 1 * Year

WebDeveloper(s, e) ==
    "web_development" \in s \/ ("javascript" \in s /\ "html" \in s)

FullStackDeveloper(s, e) ==
    /\ "python" \in s \/ "java" \in s \/ "javascript" \in s
    /\ "web_development" \in s \/ "html" \in s
    /\ e >= 2 * Year

MLEngineer(s, e) == "ml" \in s /\ e >= 2 * Year

CloudEngineer(s, e) == "cloud" \in s /\ e >= 2 * Year

DevOpsEngineer(s, e) == "devops" \in s /\ e >= 2 * Year

\* category_rules[i]['name']
RuleNames ==
    <<"Senior Python Developer", "Python Developer", "Data Scientist",
      "Data Analyst", "Senior Java Developer", "Java Developer",
      "Web Developer", "Full Stack Developer", "ML Engineer",
      "Cloud Engineer", "DevOps Engineer">>

\* category_rules[i]['condition'](s, e)
RuleCondition(i, s, e) ==
    CASE i = 1  -> SeniorPythonDeveloper(s, e)
      [] i = 2  -> PythonDeveloper(s, e)
      [] i = 3  -> DataScientist(s, e)
      [] i = 4  -> DataAnalyst(s, e)
      [] i = 5  -> SeniorJavaDeveloper(s, e)
      [] i = 6  -> JavaDeveloper(s, e)
      [] i = 7  -> WebDeveloper(s, e)
      [] i = 8  -> FullStackDeveloper(s, e)
      [] i = 9  -> MLEngineer(s, e)
      [] i = 10 -> CloudEngineer(s, e)
      [] i = 11 -> DevOpsEngineer(s, e)

FallbackNames ==
    {"Fresher", "Junior Developer", "Mid-Level Developer", "Senior Professional"}

\* A ladder that forgets its last branch: the function falls off its end.
DefaultCategory_NoElse(e) ==
    IF e = 0 THEN "Fresher"
    ELSE IF e < 2 * Year THEN "Junior Developer"
    ELSE IF e < 5 * Year THEN "Mid-Level Developer"
    ELSE ""

\* A ladder whose comparisons are off by one at the boundaries.
DefaultCategory_Inclusive(e) ==
    IF e = 0 THEN "Fresher"
    ELSE IF e <= 2 * Year THEN "Junior Developer"
    ELSE IF e <= 5 * Year THEN "Mid-Level Developer"
    ELSE "Senior Professional"

\* "Default categories based on experience"
DefaultCategory(e) ==
    IF e = 0 THEN "Fresher"
    ELSE IF e < 2 * Year THEN "Junior Developer"
    ELSE IF e < 5 * Year THEN "Mid-Level Developer"
    ELSE "Senior Professional"

\* A loop that keeps the last rule that matches instead of returning at the
\* first.
RECURSIVE LastMatch(_, _, _, _)
LastMatch(i, s, e, found) ==
    IF i > Len(RuleNames) THEN found
    ELSE LastMatch(i + 1, s, e, IF RuleCondition(i, s, e) THEN RuleNames[i] ELSE found)

CheckRules_LastMatch(i, s, e) ==
    LET r == LastMatch(i, s, e, "") IN IF r = "" THEN DefaultCategory(e) ELSE r

\* A rule list in which Python Developer was entered before its senior form.
CheckRules_Swapped(i, s, e) ==
    IF PythonDeveloper(s, e) THEN RuleNames[2]
    ELSE IF SeniorPythonDeveloper(s, e) THEN RuleNames[1]
    ELSE IF \E j \in 3..Len(RuleNames) : RuleCondition(j, s, e)
         THEN RuleNames[CHOOSE j \in 3..Len(RuleNames) :
                  /\ RuleCondition(j, s, e)
                  /\ \A k \in 3..(j - 1) : ~RuleCondition(k, s, e)]
         ELSE DefaultCategory(e)

\* "for rule in category_rules: if rule['condition'](...): return rule['name']"
\* from rule i on, then the default ladder.
RECURSIVE CheckRules(_, _, _)
CheckRules(i, s, e) ==
    IF i > Len(RuleNames) THEN DefaultCategory(e)
    ELSE IF RuleCondition(i, s, e) THEN RuleNames[i]
    ELSE CheckRules(i + 1, s, e)

categorize_candidate(s, e) == CheckRules(1, s, e)

(***************************************************************************)
(* Specification of one call of categorize_candidate.                      *)
(***************************************************************************)
SkillCollections == {s \in SUBSET SkillUniverse : Cardinality(s) <= MaxSkills}

InitClassify ==
    /\ skills \in SkillCollections
    /\ experience_years \in 0..MaxExperienceMonths
    /\ category = NotCalled
    /\ CleanIdle
    /\ FieldIdle
    /\ BatchIdle
    /\ ExtractIdle
    /\ OrchestratorIdle

Categorize ==
    /\ category = NotCalled
    /\ category' = categorize_candidate(skills, experience_years)
    /\ UNCHANGED <<skills, experience_years, cleanVars, fieldVars, batchVars, extractVars, orchestratorVars>>

NextClassify == Categorize

SpecClassify == InitClassify /\ [][NextClassify]_vars

(***************************************************************************)
(* Characters.  A text is a sequence of one-character strings.             *)
(***************************************************************************)
LowerLetters ==
    <<"a", "b", "c", "d", "e", "f", "g", "h", "i", "j", "k", "l", "m",
      "n", "o", "p", "q", "r", "s", "t", "u", "v", "w", "x", "y", "z">>

UpperLetters ==
    <<"A", "B", "C", "D", "E", "F", "G", "H", "I", "J", "K", "L", "M",
      "N", "O", "P", "Q", "R", "S", "T", "U", "V", "W", "X", "Y", "Z">>

Digits == {"0", "1", "2", "3", "4", "5", "6", "7", "8", "9"}

IsLower(c) == \E i \in 1..Len(LowerLetters) : LowerLetters[i] = c
IsUpper(c) == \E i \in 1..Len(UpperLetters) : UpperLetters[i] = c
IsDigit(c) == c \in Digits

\* \s of the re module, as far as the texts of the model go
IsSpace(c) == c \in {" ", "\n", "\r", "\t"}

\* \w of the re module
IsWord(c) == IsLower(c) \/ IsUpper(c) \/ IsDigit(c) \/ c = "_"

\* str.lower() on one character
LowerChar(c) ==
    IF IsUpper(c)
    THEN LowerLetters[CHOOSE i \in 1..Len(UpperLetters) : UpperLetters[i] = c]
    ELSE c

\* str.lower()
lower(t) == [i \in 1..Len(t) |-> LowerChar(t[i])]

\* str.strip(): leading and trailing whitespace removed
strip(t) ==
    IF \A i \in 1..Len(t) : IsSpace(t[i]) THEN <<>>
    ELSE LET first == CHOOSE i \in 1..Len(t) :
                          ~IsSpace(t[i]) /\ \A j \in 1..(i - 1) : IsSpace(t[j])
             last  == CHOOSE i \in 1..Len(t) :
                          ~IsSpace(t[i]) /\ \A j \in (i + 1)..Len(t) : IsSpace(t[j])
         IN  SubSeq(t, first, last)

(***************************************************************************)
(* Regular expressions of the re module, as far as the program uses them.  *)
(* A pattern is a tree of records; Match runs it the way re does, by       *)
(* backtracking: alternatives in order, greedy repetition longest first,   *)
(* lazy repetition shortest first, the first success wins.                 *)
(***************************************************************************)
Chars(S)      == [t |-> "set", s |-> S]                \* [...] and \d \s \w
Lit(w)        == [t |-> "lit", w |-> w]                \* literal text
AnyChar       == [t |-> "any"]                         \* . under re.DOTALL
Dot           == [t |-> "dot"]                         \* . without re.DOTALL
WordBoundary  == [t |-> "wb"]                          \* \b
Cat(xs)       == [t |-> "cat", xs |-> xs]              \* xs[1] xs[2] ...
Alt(xs)       == [t |-> "alt", xs |-> xs]              \* xs[1] | xs[2] | ...
Group(k, x)   == [t |-> "grp", k |-> k, x |-> x]       \* capturing group k
\* x{min,max}; max = -1 stands for no upper limit
Rep(x, min, max, greedy) ==
    [t |-> "rep", x |-> x, min |-> min, max |-> max, greedy |-> greedy]
Star(x)       == Rep(x, 0, -1, TRUE)                   \* x*
Plus(x)       == Rep(x, 1, -1, TRUE)                   \* x+
Opt(x)        == Rep(x, 0, 1, TRUE)                    \* x?
LazyStar(x)   == Rep(x, 0, -1, FALSE)                  \* x*?

SpaceChars == {" ", "\n", "\r", "\t"}
WordChars ==
    {LowerLetters[i] : i \in 1..Len(LowerLetters)}
        \cup {UpperLetters[i] : i \in 1..Len(UpperLetters)} \cup Digits \cup {"_"}

NoMatch == [ok |-> FALSE, start |-> 0, end |-> 0, groups |-> <<>>]

\* \b at position i: exactly one of the characters before and at i is a
\* word character.
AtWordBoundary(t, i) ==
    (i > 1 /\ IsWord(t[i - 1])) # (i <= Len(t) /\ IsWord(t[i]))

\* A pattern that matches exactly one character.
IsOneChar(x) == x.t \in {"set", "any", "dot"}

OneCharMatches(x, c) ==
    CASE x.t = "set" -> c \in x.s
      [] x.t = "any" -> TRUE
      [] x.t = "dot" -> c # "\n"

\* The length of the longest run of characters matching x from position i.
RunLength(x, t, i) ==
    CHOOSE m \in 0..(Len(t) - i + 1) :
        /\ \A j \in 0..(m - 1) : OneCharMatches(x, t[i + j])
        /\ (i + m > Len(t) \/ ~OneCharMatches(x, t[i + m]))

Smallest(S) == CHOOSE m \in S : \A n \in S : m <= n
Largest(S)  == CHOOSE m \in S : \A n \in S : n <= m

\* Match the patterns of todo, one after the other, from position i of t;
\* groups are the captures so far.  [t |-> "end"] closes a group.
\* A repetition of a one-character pattern tries its counts in the order of
\* backtracking (greedy: most first, lazy: fewest first) and keeps the first
\* count after which the rest matches.
RECURSIVE Match(_, _, _, _)
RECURSIVE MatchAlt(_, _, _, _, _, _)
Match(todo, t, i, groups) ==
    IF todo = <<>> THEN [ok |-> TRUE, start |-> 0, end |-> i, groups |-> groups]
    ELSE
      LET n == Head(todo)
          rest == Tail(todo)
      IN  CASE n.t = "set" ->
                 IF i <= Len(t) /\ t[i] \in n.s
                 THEN Match(rest, t, i + 1, groups) ELSE NoMatch
            [] n.t = "any" ->
                 IF i <= Len(t) THEN Match(rest, t, i + 1, groups) ELSE NoMatch
            [] n.t = "dot" ->
                 IF i <= Len(t) /\ t[i] # "\n"
                 THEN Match(rest, t, i + 1, groups) ELSE NoMatch
            [] n.t = "lit" ->
                 IF /\ i + Len(n.w) - 1 <= Len(t)
                    /\ \A k \in 1..Len(n.w) : t[i + k - 1] = n.w[k]
                 THEN Match(rest, t, i + Len(n.w), groups) ELSE NoMatch
            [] n.t = "wb" ->
                 IF AtWordBoundary(t, i) THEN Match(rest, t, i, groups) ELSE NoMatch
            [] n.t = "cat" -> Match(n.xs \o rest, t, i, groups)
            [] n.t = "alt" -> MatchAlt(n.xs, 1, rest, t, i, groups)
            [] n.t = "grp" ->
                 Match(<<n.x, [t |-> "end", k |-> n.k, from |-> i]>> \o rest,
                       t, i, groups)
            [] n.t = "end" ->
                 Match(rest, t, i, [groups EXCEPT ![n.k] = SubSeq(t, n.from, i - 1)])
            [] n.t = "rep" /\ IsOneChar(n.x) ->
                 LET run == RunLength(n.x, t, i)
                     most == IF n.max >= 0 /\ n.max < run THEN n.max ELSE run
                     counts == {k \in n.min..most : Match(rest, t, i + k, groups).ok}
                 IN  IF counts = {} THEN NoMatch
                     ELSE Match(rest, t,
                                i + (IF n.greedy THEN Largest(counts) ELSE Smallest(counts)),
                                groups)
            [] n.t = "rep" /\ ~IsOneChar(n.x) ->
                 LET more == Rep(n.x,
                                 IF n.min > 0 THEN n.min - 1 ELSE 0,
                                 IF n.max > 0 THEN n.max - 1 ELSE n.max,
                                 n.greedy)
                     once == Match(<<n.x, more>> \o rest, t, i, groups)
                     none == Match(rest, t, i, groups)
                 IN  IF n.min > 0 THEN once
                     ELSE IF n.max = 0 THEN none
                     ELSE IF n.greedy THEN (IF once.ok THEN once ELSE none)
                     ELSE (IF none.ok THEN none ELSE once)

MatchAlt(xs, k, rest, t, i, groups) ==
    IF k > Len(xs) THEN NoMatch
    ELSE LET r == Match(<<xs[k]>> \o rest, t, i, groups)
         IN  IF r.ok THEN r ELSE MatchAlt(xs, k + 1, rest, t, i, groups)

NoGroups == <<<<>>, <<>>>>

\* re.search(pattern, t) from position i on: the leftmost match.
SearchFrom(re, t, i) ==
    LET starts == {j \in i..(Len(t) + 1) : Match(<<re>>, t, j, NoGroups).ok}
    IN  IF starts = {} THEN NoMatch
        ELSE [Match(<<re>>, t, Smallest(starts), NoGroups)
                 EXCEPT !.start = Smallest(starts)]

re_search(re, t) == SearchFrom(re, t, 1)

\* The text a match covers: match.group(0).
Group0(t, r) == SubSeq(t, r.start, r.end - 1)

\* re.findall(pattern, t) from position i on: the matches from left to
\* right, none overlapping another (every pattern of the program consumes
\* at least one character).
RECURSIVE FindAllFrom(_, _, _)
FindAllFrom(re, t, i) ==
    LET r == SearchFrom(re, t, i)
    IN  IF ~r.ok THEN <<>>
        ELSE <<r>> \o FindAllFrom(re, t, IF r.end > r.start THEN r.end ELSE r.end + 1)

re_findall(re, t) == FindAllFrom(re, t, 1)

(***************************************************************************)
(* CVParser.clean_extracted_text                                           *)
(***************************************************************************)
\* re.sub(r'\s+', ' ', text): every maximal run of whitespace becomes one
\* space; the scan is at position i.
CollapseWhitespace(t) ==
    LET marked == [i \in 1..Len(t) |->
                      [c |-> IF IsSpace(t[i]) THEN " " ELSE t[i],
                       keep |-> ~IsSpace(t[i]) \/ i = 1 \/ ~IsSpace(t[i - 1])]]
        kept == SelectSeq(marked, LAMBDA m : m.keep)
    IN  [i \in 1..Len(kept) |-> kept[i].c]

\* The characters the class [^\w\s.,:;!?@()\-/] does not match.
KeptPunctuation == {".", ",", ":", ";", "!", "?", "@", "(", ")", "-", "/"}

IsKept(c) == IsWord(c) \/ IsSpace(c) \/ c \in KeptPunctuation

\* re.sub(r'[^\w\s.,:;!?@()\-/]', ' ', text)
RemoveSpecial(t) == [i \in 1..Len(t) |-> IF IsKept(t[i]) THEN t[i] ELSE " "]

\* text.replace('\r\n', '\n').replace('\r', '\n')
ReplaceCRLF(t) ==
    LET marked == [i \in 1..Len(t) |->
                      [c |-> t[i],
                       keep |-> ~(t[i] = "\r" /\ i < Len(t) /\ t[i + 1] = "\n")]]
        kept == SelectSeq(marked, LAMBDA m : m.keep)
    IN  [i \in 1..Len(kept) |-> kept[i].c]

ReplaceCR(t) == [i \in 1..Len(t) |-> IF t[i] = "\r" THEN "\n" ELSE t[i]]

NormalizeLineEndings(t) == ReplaceCR(ReplaceCRLF(t))

\* re.sub(r'\n\s*\n', '\n\n', text): a match starts at the first newline of
\* a whitespace run and the greedy \s* reaches to the last newline of that
\* run, so the characters strictly between the two are the ones removed.
CollapseBlankLines(t) ==
    LET newlines == {j \in 1..Len(t) : t[j] = "\n"}
        marked == [i \in 1..Len(t) |->
                      [c |-> t[i],
                       keep |-> ~\E p \in newlines, q \in newlines :
                                    /\ p < i /\ i < q
                                    /\ \A k \in p..q : IsSpace(t[k])]]
        kept == SelectSeq(marked, LAMBDA m : m.keep)
    IN  [i \in 1..Len(kept) |-> kept[i].c]

\* The method, statement by statement.
clean_extracted_text(t) ==
    IF t = <<>> THEN <<>>
    ELSE strip(CollapseBlankLines(
             NormalizeLineEndings(RemoveSpecial(CollapseWhitespace(t)))))

(***************************************************************************)
(* Specification of clean_extracted_text applied once and then again to    *)
(* its own output.                                                         *)
(***************************************************************************)
\* One character of each class the method distinguishes: a space, the two
\* line-ending characters, a word character, a kept punctuation mark and a
\* character outside the whitelist.
CleanAlphabet == {" ", "\n", "\r", "a", ".", "#"}

Texts(n) == UNION {[1..k -> CleanAlphabet] : k \in 0..n}

InitClean ==
    /\ text \in Texts(MaxTextLen)
    /\ cleaned = NotCalled
    /\ cleaned_again = NotCalled
    /\ FieldIdle
    /\ BatchIdle
    /\ ClassifyIdle
    /\ ExtractIdle
    /\ OrchestratorIdle

Clean ==
    /\ cleaned = NotCalled
    /\ cleaned' = clean_extracted_text(text)
    /\ UNCHANGED <<text, cleaned_again, classifyVars, fieldVars, batchVars, extractVars, orchestratorVars>>

CleanAgain ==
    /\ cleaned # NotCalled
    /\ cleaned_again = NotCalled
    /\ cleaned_again' = clean_extracted_text(cleaned)
    /\ UNCHANGED <<text, cleaned, classifyVars, fieldVars, batchVars, extractVars, orchestratorVars>>

NextClean == Clean \/ CleanAgain

SpecClean == InitClean /\ [][NextClean]_vars

(***************************************************************************)
(* CVParser.extract_text_from_pdf / extract_text_from_docx / extract_text  *)
(*                                                                         *)
(* A document is described by what each library does when it reads it:     *)
(*   kind "pdf":  pdfplumber, pypdf2 : [pages, raises]  the page texts the *)
(*                  library yields (<<>> for None or '') and whether it    *)
(*                  raises after them (raises with no page: open failed);  *)
(*                pdfminer : [text, raises]                                *)
(*   kind "docx": paragraphs, cells : the texts python-docx yields;        *)
(*                raises : docx.Document(file_path) raises                 *)
(* A library given a document of the other kind raises on opening it.      *)
(***************************************************************************)
Libraries == {"pdfplumber", "PyPDF2", "pdfminer", "docx"}

OpenFails == [pages |-> <<>>, raises |-> TRUE]

pdfplumber_read(f) == IF f.kind = "pdf" THEN f.pdfplumber ELSE OpenFails
PyPDF2_read(f)     == IF f.kind = "pdf" THEN f.pypdf2 ELSE OpenFails
pdfminer_read(f)   == IF f.kind = "pdf" THEN f.pdfminer
                      ELSE [text |-> <<>>, raises |-> TRUE]

\* "for page in pages: page_text = page.extract_text();
\*  if page_text: text += page_text + '\n'"
RECURSIVE AppendPages(_, _, _)
AppendPages(t, pages, i) ==
    IF i > Len(pages) THEN t
    ELSE AppendPages(IF pages[i] # <<>> THEN t \o pages[i] \o <<"\n">> ELSE t,
                     pages, i + 1)

\* One page-by-page method (Method 1 or 2) run on the state st of the
\* function: st.text is the local variable text, st.returned whether a
\* return statement was reached, st.attempted the methods entered so far.
\* An exception leaves the loop with the pages read so far already added.
PageMethod(st, name, outcome) ==
    IF st.returned \/ name \notin available THEN st
    ELSE LET t == AppendPages(st.text, outcome.pages, 1)
         IN  [text      |-> t,
              returned  |-> ~outcome.raises /\ strip(t) # <<>>,
              used      |-> IF ~outcome.raises /\ strip(t) # <<>> THEN name ELSE st.used,
              attempted |-> Append(st.attempted, name)]

\* Method 3: "text = pdfminer_extract(file_path); if text.strip(): return text"
MinerMethod(st, outcome) ==
    IF st.returned \/ "pdfminer" \notin available THEN st
    ELSE LET t == IF outcome.raises THEN st.text ELSE outcome.text
         IN  [text      |-> t,
              returned  |-> ~outcome.raises /\ strip(t) # <<>>,
              used      |-> IF ~outcome.raises /\ strip(t) # <<>> THEN "pdfminer" ELSE st.used,
              attempted |-> Append(st.attempted, "pdfminer")]

\* The whole function: text = "", Method 1, Method 2, Method 3, return text.
extract_text_from_pdf(f) ==
    LET st0 == [text |-> <<>>, returned |-> FALSE, used |-> "none", attempted |-> <<>>]
        st1 == PageMethod(st0, "pdfplumber", pdfplumber_read(f))
        st2 == PageMethod(st1, "PyPDF2", PyPDF2_read(f))
    IN  MinerMethod(st2, pdfminer_read(f))

\* "text += paragraph.text + '\n'" for every item
RECURSIVE AppendLines(_, _, _)
AppendLines(t, items, i) ==
    IF i > Len(items) THEN t
    ELSE AppendLines(t \o items[i] \o <<"\n">>, items, i + 1)

extract_text_from_docx(f) ==
    IF "docx" \notin available \/ f.kind # "docx" \/ f.raises THEN <<>>
    ELSE AppendLines(AppendLines(<<>>, f.paragraphs, 1), f.cells, 1)

\* "try: ... except Exception as e: print(...)": whether the exception a
\* library call raises leaves the try statement.  Every library call of the
\* two extractors stands inside such a statement.
Escapes_NoHandler(raises) == raises

Escapes(raises) == FALSE

LibraryRaises(f, name) ==
    IF name = "pdfplumber" THEN pdfplumber_read(f).raises
    ELSE IF name = "PyPDF2" THEN PyPDF2_read(f).raises
    ELSE pdfminer_read(f).raises

\* What the caller of extract_text_from_pdf sees.
PdfResult(f) ==
    LET r == extract_text_from_pdf(f)
    IN  [raised |-> FALSE, extractor |-> "pdf", text |-> r.text,
         attempted |-> r.attempted,
         propagated |-> \E i \in 1..Len(r.attempted) :
                            Escapes(LibraryRaises(f, r.attempted[i]))]

\* What the caller of extract_text_from_docx sees.
DocxResult(f) ==
    [raised |-> FALSE, extractor |-> "docx", text |-> extract_text_from_docx(f),
     attempted |-> <<>>,
     propagated |-> "docx" \in available /\ Escapes(f.kind # "docx" \/ f.raises)]

\* "raise ValueError(f'Unsupported file format: {file_extension}')"
Unsupported ==
    [raised |-> TRUE, extractor |-> "none", text |-> <<>>,
     attempted |-> <<>>, propagated |-> FALSE]

\* '.pdf' and '.docx'
DotPdf  == <<".", "p", "d", "f">>
DotDocx == <<".", "d", "o", "c", "x">>

\* A comparison that forgets file_extension.lower().
extract_text_CaseSensitive(f, ext) ==
    IF ext = DotPdf
    THEN PdfResult(f)
    ELSE IF ext = DotDocx
    THEN DocxResult(f)
    ELSE Unsupported

\* A dispatch that takes every extension other than '.pdf' for a DOCX.
extract_text_NoElse(f, ext) ==
    IF lower(ext) = DotPdf
    THEN PdfResult(f)
    ELSE DocxResult(f)

\* extract_text: raised is the ValueError "Unsupported file format".
extract_text(f, ext) ==
    LET e == lower(ext)
    IN  IF e = DotPdf
        THEN PdfResult(f)
        ELSE IF e = DotDocx
        THEN DocxResult(f)
        ELSE Unsupported

(***************************************************************************)
(* Specification of one call of extract_text.                              *)
(***************************************************************************)
SeqsUpTo(S, n) == UNION {[1..k -> S] : k \in 0..n}

\* What one page, paragraph or cell may hold: nothing, white space, text.
\* Each library's text carries its own letter so that its origin shows.
PageTexts(letter) == {<<>>, <<" ">>, <<letter>>}

PageOutcomes(letter) ==
    [pages : SeqsUpTo(PageTexts(letter), MaxPages), raises : BOOLEAN]

PdfFiles ==
    [kind : {"pdf"},
     pdfplumber : PageOutcomes("a"),
     pypdf2 : PageOutcomes("b"),
     pdfminer : [text : PageTexts("c"), raises : BOOLEAN]]

DocxFiles ==
    {f \in [kind : {"docx"},
            paragraphs : SeqsUpTo(PageTexts("d"), MaxParagraphs),
            cells : SeqsUpTo(PageTexts("e"), MaxCells),
            raises : BOOLEAN] :
        f.raises => (f.paragraphs = <<>> /\ f.cells = <<>>)}

\* A library that is not installed reads nothing: its part of the document
\* is fixed so that equal situations are not counted twice.
Relevant(f, avail) ==
    /\ f.kind = "pdf" =>
        /\ "pdfplumber" \notin avail => f.pdfplumber = OpenFails
        /\ "PyPDF2" \notin avail => f.pypdf2 = OpenFails
        /\ "pdfminer" \notin avail => f.pdfminer = [text |-> <<>>, raises |-> TRUE]
    /\ f.kind = "docx" => avail \ {"docx"} \in {{}, Libraries \ {"docx"}}

upper(t) ==
    [i \in 1..Len(t) |->
        IF IsLower(t[i])
        THEN UpperLetters[CHOOSE k \in 1..Len(LowerLetters) : LowerLetters[k] = t[i]]
        ELSE t[i]]

\* The same extension in lower case, in upper case and in mixed case.
Cased(t) ==
    {t, upper(t), [i \in 1..Len(t) |-> IF i % 2 = 0 THEN upper(t)[i] ELSE t[i]]}

\* Extensions as os.path.splitext yields them (with the dot), the bare
\* format names, and extensions of other formats.
FileExtensions ==
    UNION {Cased(t) : t \in {DotPdf, DotDocx, <<"p", "d", "f">>,
                             <<"d", "o", "c", "x">>, <<".", "d", "o", "c">>,
                             <<".", "t", "x", "t">>, <<".", "p", "d", "f", "x">>,
                             <<>>}}

InitExtract ==
    /\ available \in SUBSET Libraries
    /\ cv_file \in PdfFiles \cup DocxFiles
    /\ Relevant(cv_file, available)
    /\ file_extension \in FileExtensions
    /\ extracted = NotExtracted
    /\ ClassifyIdle
    /\ CleanIdle
    /\ FieldIdle
    /\ BatchIdle
    /\ OrchestratorIdle

ExtractText ==
    /\ extracted.extractor = NotCalled
    /\ extracted' = extract_text(cv_file, file_extension)
    /\ UNCHANGED <<available, cv_file, file_extension, classifyVars, cleanVars, fieldVars, batchVars,
                   orchestratorVars>>

NextExtract == ExtractText

SpecExtract == InitExtract /\ [][NextExtract]_vars

(***************************************************************************)
(* CVAnalyzer.extract_experience                                           *)
(***************************************************************************)
DigitChars == Chars(Digits)
Spaces     == Star(Chars(SpaceChars))                  \* \s*
Number(k)  == Group(k, Plus(DigitChars))               \* (\d+)
Years      == Cat(<<Lit(<<"y", "e", "a", "r">>), Opt(Lit(<<"s">>))>>)  \* years?
YearsOrYrs ==                                          \* (?:years?|yrs?)
    Alt(<<Years, Cat(<<Lit(<<"y", "r">>), Opt(Lit(<<"s">>))>>)>>)

\* EXPERIENCE_PATTERNS, in list order.  groups is the number of capturing
\* groups (findall gives tuples from two on), months is the test
\* '"months" in pattern'.
EXPERIENCE_PATTERNS ==
    << \* (\d+)\s*(?:years?|yrs?)\s*(?:\+)?\s*experience
       [re |-> Cat(<<Number(1), Spaces, YearsOrYrs, Spaces, Opt(Lit(<<"+">>)),
                    Spaces, Lit(<<"e", "x", "p", "e", "r", "i", "e", "n", "c", "e">>)>>),
        groups |-> 1, months |-> FALSE],
       \* experience.*?(\d+)\s*(?:years?|yrs?)
       [re |-> Cat(<<Lit(<<"e", "x", "p", "e", "r", "i", "e", "n", "c", "e">>), LazyStar(Dot), Number(1), Spaces,
                    YearsOrYrs>>),
        groups |-> 1, months |-> FALSE],
       \* (\d+)\+?\s*years?
       [re |-> Cat(<<Number(1), Opt(Lit(<<"+">>)), Spaces, Years>>),
        groups |-> 1, months |-> FALSE],
       \* (\d+)\s*-\s*(\d+)\s*years?
       [re |-> Cat(<<Number(1), Spaces, Lit(<<"-">>), Spaces, Number(2), Spaces,
                    Years>>),
        groups |-> 2, months |-> FALSE],
       \* (\d+)\s*months?
       [re |-> Cat(<<Number(1), Spaces, Lit(<<"m", "o", "n", "t", "h">>), Opt(Lit(<<"s">>))>>),
        groups |-> 1, months |-> TRUE] >>

DigitValue(c) ==
    CASE c = "0" -> 0 [] c = "1" -> 1 [] c = "2" -> 2 [] c = "3" -> 3
      [] c = "4" -> 4 [] c = "5" -> 5 [] c = "6" -> 6 [] c = "7" -> 7
      [] c = "8" -> 8 [] c = "9" -> 9

\* float() of a string of digits
RECURSIVE ToNumber(_)
ToNumber(d) ==
    IF d = <<>> THEN 0
    ELSE 10 * ToNumber(SubSeq(d, 1, Len(d) - 1)) + DigitValue(d[Len(d)])

\* "Pattern 1": the value one match adds to years_found, in months.
\* A tuple (two groups) is the mean of its two numbers; a single number is
\* divided by 12 when the pattern is the months pattern.
PatternValue(p, r) ==
    IF p.groups > 1
    THEN ((ToNumber(r.groups[1]) + ToNumber(r.groups[2])) * Year) \div 2
    ELSE IF p.months THEN ToNumber(r.groups[1])
    ELSE ToNumber(r.groups[1]) * Year

\* "Pattern 3": the value one match in the summary section adds, in months:
\* float(match_val[0] if tuple else match_val), taken as years.
SummaryValue(p, r) == ToNumber(r.groups[1]) * Year

MonthName ==       \* (?:jan|feb|...|dec)[a-z]*
    Cat(<<Alt(<<Lit(<<"j", "a", "n">>), Lit(<<"f", "e", "b">>), Lit(<<"m", "a", "r">>), Lit(<<"a", "p", "r">>),
                Lit(<<"m", "a", "y">>), Lit(<<"j", "u", "n">>), Lit(<<"j", "u", "l">>), Lit(<<"a", "u", "g">>),
                Lit(<<"s", "e", "p">>), Lit(<<"o", "c", "t">>), Lit(<<"n", "o", "v">>), Lit(<<"d", "e", "c">>)>>),
          Star(Chars({LowerLetters[i] : i \in 1..Len(LowerLetters)}))>>)

DashOrTo == Alt(<<Lit(<<"-">>), Lit(<<"t", "o">>)>>)             \* (?:-|to)
Digits4  == Rep(DigitChars, 4, 4, TRUE)                  \* \d{4}
Digits12 == Rep(DigitChars, 1, 2, TRUE)                  \* \d{1,2}

\* date_patterns, in list order
date_patterns ==
    << Cat(<<MonthName, Plus(Chars(SpaceChars)), Digits4, Spaces, DashOrTo,
             Spaces, MonthName, Plus(Chars(SpaceChars)), Digits4>>),
       Cat(<<Digits12, Lit(<<"/">>), Digits4, Spaces, DashOrTo, Spaces,
             Digits12, Lit(<<"/">>), Digits4>>),
       Cat(<<Digits4, Spaces, DashOrTo, Spaces, Digits4>>) >>

\* (?:\n\n|\n\w+:), the end of a captured section
SectionEnd ==
    Alt(<<Lit(<<"\n", "\n">>), Cat(<<Lit(<<"\n">>), Plus(Chars(WordChars)), Lit(<<":">>)>>)>>)

\* [\s:]*(.*?) and the section end, after a header
SectionBody ==
    Cat(<<Star(Chars(SpaceChars \cup {":"})), Group(1, LazyStar(AnyChar)),
          SectionEnd>>)

\* (?:summary|objective|profile)[\s:]*(.*?)(?:\n\n|\n\w+:)
summary_pattern ==
    Cat(<<Alt(<<Lit(<<"s", "u", "m", "m", "a", "r", "y">>), Lit(<<"o", "b", "j", "e", "c", "t", "i", "v", "e">>), Lit(<<"p", "r", "o", "f", "i", "l", "e">>)>>),
          SectionBody>>)

\* The values of all matches of pattern p in t, by the operator value.
RECURSIVE MatchValues(_, _, _, _)
MatchValues(p, matches, i, summary) ==
    IF i > Len(matches) THEN <<>>
    ELSE <<IF summary THEN SummaryValue(p, matches[i]) ELSE PatternValue(p, matches[i])>>
         \o MatchValues(p, matches, i + 1, summary)

\* "for pattern in EXPERIENCE_PATTERNS: ... years_found.append(years)"
RECURSIVE ScanPatterns(_, _, _)
ScanPatterns(t, k, summary) ==
    IF k > Len(EXPERIENCE_PATTERNS) THEN <<>>
    ELSE MatchValues(EXPERIENCE_PATTERNS[k],
                     re_findall(EXPERIENCE_PATTERNS[k].re, t), 1, summary)
         \o ScanPatterns(t, k + 1, summary)

\* "Pattern 2": a date pattern with two or more matches adds 2 years for
\* each of its matches.
RECURSIVE ScanDates(_, _)
ScanDates(t, k) ==
    IF k > Len(date_patterns) THEN <<>>
    ELSE LET n == Len(re_findall(date_patterns[k], t))
         IN  (IF n >= 2 THEN <<n * 2 * Year>> ELSE <<>>) \o ScanDates(t, k + 1)

\* "Pattern 3": the numeric patterns again on the captured summary section.
ScanSummary(t) ==
    LET r == re_search(summary_pattern, t)
    IN  IF r.ok THEN ScanPatterns(r.groups[1], 1, TRUE) ELSE <<>>

\* years_found at the end of the function
years_found(t) ==
    LET text_lower == lower(t)
    IN  ScanPatterns(text_lower, 1, FALSE) \o ScanDates(text_lower, 1)
            \o ScanSummary(text_lower)

\* sum(years_found) in the place of max(years_found).
RECURSIVE SumFrom(_, _)
SumFrom(vs, i) == IF i > Len(vs) THEN 0 ELSE vs[i] + SumFrom(vs, i + 1)

MaxOf_Sum(vs) == SumFrom(vs, 1)

\* max(years_found) if years_found else 0.0
MaxOf(vs) ==
    IF vs = <<>> THEN 0
    ELSE CHOOSE m \in {vs[i] : i \in 1..Len(vs)} : \A i \in 1..Len(vs) : vs[i] <= m

extract_experience(t) == MaxOf(years_found(t))

(***************************************************************************)
(* CVAnalyzer.extract_skills                                               *)
(***************************************************************************)
\* SKILL_KEYWORDS: SkillVariations[i] are the variations of SkillTags[i].
SkillVariations ==
    << \* 'python': 'python', 'python3', 'python 3', 'python programming', 'djan...
       <<<<"p", "y", "t", "h", "o", "n">>,
         <<"p", "y", "t", "h", "o", "n", "3">>,
         <<"p", "y", "t", "h", "o", "n", " ", "3">>,
         <<"p", "y", "t", "h", "o", "n", " ", "p", "r", "o", "g", "r", "a", "m", "m", "i", "n", "g">>,
         <<"d", "j", "a", "n", "g", "o">>, <<"f", "l", "a", "s", "k">>,
         <<"f", "a", "s", "t", "a", "p", "i">>,
         <<"p", "a", "n", "d", "a", "s">>, <<"n", "u", "m", "p", "y">>>>,
       \* 'java': 'java', 'java programming', 'spring', 'spring boot', 'spring...
       <<<<"j", "a", "v", "a">>,
         <<"j", "a", "v", "a", " ", "p", "r", "o", "g", "r", "a", "m", "m", "i", "n", "g">>,
         <<"s", "p", "r", "i", "n", "g">>,
         <<"s", "p", "r", "i", "n", "g", " ", "b", "o", "o", "t">>,
         <<"s", "p", "r", "i", "n", "g", " ", "f", "r", "a", "m", "e", "w", "o", "r", "k">>,
         <<"h", "i", "b", "e", "r", "n", "a", "t", "e">>,
         <<"j", "2", "e", "e">>>>,
       \* 'javascript': 'javascript', 'js', 'node.js', 'nodejs', 'react', 'angular',...
       <<<<"j", "a", "v", "a", "s", "c", "r", "i", "p", "t">>, <<"j", "s">>,
         <<"n", "o", "d", "e", ".", "j", "s">>,
         <<"n", "o", "d", "e", "j", "s">>, <<"r", "e", "a", "c", "t">>,
         <<"a", "n", "g", "u", "l", "a", "r">>, <<"v", "u", "e">>,
         <<"t", "y", "p", "e", "s", "c", "r", "i", "p", "t">>,
         <<"e", "x", "p", "r", "e", "s", "s", ".", "j", "s">>>>,
       \* 'sql': 'sql', 'mysql', 'postgresql', 'postgres', 'oracle', 'sql ser...
       <<<<"s", "q", "l">>, <<"m", "y", "s", "q", "l">>,
         <<"p", "o", "s", "t", "g", "r", "e", "s", "q", "l">>,
         <<"p", "o", "s", "t", "g", "r", "e", "s">>,
         <<"o", "r", "a", "c", "l", "e">>,
         <<"s", "q", "l", " ", "s", "e", "r", "v", "e", "r">>,
         <<"d", "a", "t", "a", "b", "a", "s", "e">>,
         <<"m", "o", "n", "g", "o", "d", "b">>>>,
       \* 'excel': 'excel', 'microsoft excel', 'spreadsheet', 'vlookup', 'pivot...
       <<<<"e", "x", "c", "e", "l">>,
         <<"m", "i", "c", "r", "o", "s", "o", "f", "t", " ", "e", "x", "c", "e", "l">>,
         <<"s", "p", "r", "e", "a", "d", "s", "h", "e", "e", "t">>,
         <<"v", "l", "o", "o", "k", "u", "p">>,
         <<"p", "i", "v", "o", "t", " ", "t", "a", "b", "l", "e">>>>,
       \* 'ml': 'machine learning', 'ml', 'ai', 'artificial intelligence', '...
       <<<<"m", "a", "c", "h", "i", "n", "e", " ", "l", "e", "a", "r", "n", "i", "n", "g">>,
         <<"m", "l">>, <<"a", "i">>,
         <<"a", "r", "t", "i", "f", "i", "c", "i", "a", "l", " ", "i", "n", "t", "e", "l", "l", "i", "g", "e", "n", "c", "e">>,
         <<"d", "e", "e", "p", " ", "l", "e", "a", "r", "n", "i", "n", "g">>,
         <<"n", "e", "u", "r", "a", "l", " ", "n", "e", "t", "w", "o", "r", "k">>,
         <<"t", "e", "n", "s", "o", "r", "f", "l", "o", "w">>,
         <<"p", "y", "t", "o", "r", "c", "h">>>>,
       \* 'data_analysis': 'data analysis', 'data analytics', 'power bi', 'tableau', 'd...
       <<<<"d", "a", "t", "a", " ", "a", "n", "a", "l", "y", "s", "i", "s">>,
         <<"d", "a", "t", "a", " ", "a", "n", "a", "l", "y", "t", "i", "c", "s">>,
         <<"p", "o", "w", "e", "r", " ", "b", "i">>,
         <<"t", "a", "b", "l", "e", "a", "u">>,
         <<"d", "a", "t", "a", " ", "v", "i", "s", "u", "a", "l", "i", "z", "a", "t", "i", "o", "n">>,
         <<"b", "u", "s", "i", "n", "e", "s", "s", " ", "i", "n", "t", "e", "l", "l", "i", "g", "e", "n", "c", "e">>>>,
       \* 'web_development': 'html', 'css', 'bootstrap', 'web development', 'frontend', '...
       <<<<"h", "t", "m", "l">>, <<"c", "s", "s">>,
         <<"b", "o", "o", "t", "s", "t", "r", "a", "p">>,
         <<"w", "e", "b", " ", "d", "e", "v", "e", "l", "o", "p", "m", "e", "n", "t">>,
         <<"f", "r", "o", "n", "t", "e", "n", "d">>,
         <<"b", "a", "c", "k", "e", "n", "d">>,
         <<"f", "u", "l", "l", " ", "s", "t", "a", "c", "k">>>>,
       \* 'cloud': 'aws', 'amazon web services', 'azure', 'google cloud', 'gcp'...
       <<<<"a", "w", "s">>,
         <<"a", "m", "a", "z", "o", "n", " ", "w", "e", "b", " ", "s", "e", "r", "v", "i", "c", "e", "s">>,
         <<"a", "z", "u", "r", "e">>,
         <<"g", "o", "o", "g", "l", "e", " ", "c", "l", "o", "u", "d">>,
         <<"g", "c", "p">>,
         <<"c", "l", "o", "u", "d", " ", "c", "o", "m", "p", "u", "t", "i", "n", "g">>,
         <<"d", "o", "c", "k", "e", "r">>,
         <<"k", "u", "b", "e", "r", "n", "e", "t", "e", "s">>>>,
       \* 'testing': 'testing', 'selenium', 'junit', 'testng', 'automation testin...
       <<<<"t", "e", "s", "t", "i", "n", "g">>,
         <<"s", "e", "l", "e", "n", "i", "u", "m">>,
         <<"j", "u", "n", "i", "t">>, <<"t", "e", "s", "t", "n", "g">>,
         <<"a", "u", "t", "o", "m", "a", "t", "i", "o", "n", " ", "t", "e", "s", "t", "i", "n", "g">>,
         <<"m", "a", "n", "u", "a", "l", " ", "t", "e", "s", "t", "i", "n", "g">>>>,
       \* 'devops': 'devops', 'ci/cd', 'jenkins', 'git', 'github', 'gitlab'
       <<<<"d", "e", "v", "o", "p", "s">>, <<"c", "i", "/", "c", "d">>,
         <<"j", "e", "n", "k", "i", "n", "s">>, <<"g", "i", "t">>,
         <<"g", "i", "t", "h", "u", "b">>, <<"g", "i", "t", "l", "a", "b">>>> >>

\* "variation in skills_text": w occurs somewhere in t
Contains(t, w) ==
    \E i \in 1..(Len(t) - Len(w) + 1) : \A k \in 1..Len(w) : t[i + k - 1] = w[k]

\* re.search(r'\b' + re.escape(variation) + r'\b', text_lower)
WholeWordIn(t, w) ==
    \E i \in 1..(Len(t) - Len(w) + 1) :
        /\ \A k \in 1..Len(w) : t[i + k - 1] = w[k]
        /\ AtWordBoundary(t, i)
        /\ AtWordBoundary(t, i + Len(w))

\* A scan that forgets the word boundaries.
FullTextHit_Substring(t, i) ==
    \E v \in 1..Len(SkillVariations[i]) : Contains(t, SkillVariations[i][v])

\* Some variation of tag i is found in the full text as a whole word.
FullTextHit(t, i) ==
    \E v \in 1..Len(SkillVariations[i]) : WholeWordIn(t, SkillVariations[i][v])

\* Some variation of tag i occurs in the captured section.
SectionHit(t, i) ==
    \E v \in 1..Len(SkillVariations[i]) : Contains(t, SkillVariations[i][v])

\* skill_contexts, in list order
skill_contexts ==
    << \* skills?[\s:]*(.*?)(?:\n\n|\n\w+:)
       Cat(<<Lit(<<"s", "k", "i", "l", "l">>), Opt(Lit(<<"s">>)), SectionBody>>),
       \* technical\s*skills?[\s:]*(.*?)(?:\n\n|\n\w+:)
       Cat(<<Lit(<<"t", "e", "c", "h", "n", "i", "c", "a", "l">>), Spaces, Lit(<<"s", "k", "i", "l", "l">>), Opt(Lit(<<"s">>)),
             SectionBody>>),
       \* expertise[\s:]*(.*?)(?:\n\n|\n\w+:)
       Cat(<<Lit(<<"e", "x", "p", "e", "r", "t", "i", "s", "e">>), SectionBody>>) >>

\* A loop that forgets "if skill not in found_skills".
RECURSIVE AddSkills_NoDedup(_, _, _, _)
AddSkills_NoDedup(found, t, i, section) ==
    IF i > Len(SkillTags) THEN found
    ELSE AddSkills_NoDedup(
             IF (IF section THEN SectionHit(t, i) ELSE FullTextHit(t, i))
             THEN Append(found, SkillTags[i]) ELSE found,
             t, i + 1, section)

\* found_skills after the tags from i on were looked for by Hit, each
\* appended once.
RECURSIVE AddSkills(_, _, _, _)
AddSkills(found, t, i, section) ==
    IF i > Len(SkillTags) THEN found
    ELSE AddSkills(
             IF /\ IF section THEN SectionHit(t, i) ELSE FullTextHit(t, i)
                /\ \A k \in 1..Len(found) : found[k] # SkillTags[i]
             THEN Append(found, SkillTags[i]) ELSE found,
             t, i + 1, section)

\* "for pattern, search_text in skill_contexts: ..."
RECURSIVE AddSectionSkills(_, _, _)
AddSectionSkills(found, t, k) ==
    IF k > Len(skill_contexts) THEN found
    ELSE LET r == re_search(skill_contexts[k], t)
         IN  AddSectionSkills(
                 IF r.ok THEN AddSkills(found, lower(r.groups[1]), 1, TRUE) ELSE found,
                 t, k + 1)

\* The list of tags the function returns.
extract_skills(t) ==
    LET text_lower == lower(t)
    IN  AddSectionSkills(AddSkills(<<>>, text_lower, 1, FALSE), text_lower, 1)

(***************************************************************************)
(* CVAnalyzer.extract_name, extract_email, extract_phone                   *)
(***************************************************************************)
\* str.split('\n'): the lines of t, from position i on
RECURSIVE SplitLines(_, _)
SplitLines(t, i) ==
    LET ends == {j \in i..Len(t) : t[j] = "\n"}
    IN  IF ends = {} THEN <<SubSeq(t, i, Len(t))>>
        ELSE LET j == CHOOSE m \in ends : \A n \in ends : m <= n
             IN  <<SubSeq(t, i, j - 1)>> \o SplitLines(t, j + 1)

split_lines(t) == SplitLines(t, 1)

\* str.isupper(): there is a cased character and no lower-case one
isupper(t) ==
    /\ \E i \in 1..Len(t) : IsUpper(t[i])
    /\ \A i \in 1..Len(t) : ~IsLower(t[i])

\* str.startswith
startswith(t, w) == Len(w) <= Len(t) /\ SubSeq(t, 1, Len(w)) = w

NonNamePrefixes ==
    {<<"c", "u", "r", "r", "i", "c", "u", "l", "u", "m", " ", "v", "i", "t", "a", "e">>, <<"r", "e", "s", "u", "m", "e">>, <<"c", "v">>, <<"p", "h", "o", "n", "e">>, <<"e", "m", "a", "i", "l">>}

NameLines == 5       \* lines[:5]
NameLength == 50     \* len(line) < 50

\* The tests a line has to pass to be returned as the name.
LooksLikeName(line) ==
    /\ line # <<>>
    /\ Len(line) < NameLength
    /\ \A i \in 1..Len(line) : ~IsDigit(line[i])
    /\ ~isupper(line)
    /\ \A p \in NonNamePrefixes : ~startswith(lower(line), p)

\* The first of the first 5 lines that looks like a name, '' if none does.
extract_name(t) ==
    LET lines == split_lines(strip(t))
        first == [i \in 1..(IF Len(lines) < NameLines THEN Len(lines) ELSE NameLines)
                     |-> strip(lines[i])]
        good  == {i \in 1..Len(first) : LooksLikeName(first[i])}
    IN  IF good = {} THEN <<>>
        ELSE first[CHOOSE i \in good : \A j \in good : i <= j]

Letters ==
    {LowerLetters[i] : i \in 1..Len(LowerLetters)}
        \cup {UpperLetters[i] : i \in 1..Len(UpperLetters)}

\* \b[A-Za-z0-9._%+-]+@[A-Za-z0-9.-]+\.[A-Z|a-z]{2,}\b
email_pattern ==
    Cat(<<WordBoundary,
          Plus(Chars(Letters \cup Digits \cup {".", "_", "%", "+", "-"})),
          Lit(<<"@">>),
          Plus(Chars(Letters \cup Digits \cup {".", "-"})),
          Lit(<<".">>),
          Rep(Chars(Letters \cup {"|"}), 2, -1, TRUE),
          WordBoundary>>)

extract_email(t) ==
    LET r == re_search(email_pattern, t) IN IF r.ok THEN Group0(t, r) ELSE <<>>

Separator == Opt(Chars({"-", ".", " ", "\n", "\r", "\t"}))   \* [-.\s]?
DigitsRange(a, b) == Rep(DigitChars, a, b, TRUE)                \* \d{a,b}

\* phone_patterns, in list order
phone_patterns ==
    << \* \+\d{1,3}[-.\s]?\(?\d{1,4}\)?[-.\s]?\d{1,4}[-.\s]?\d{1,9}
       Cat(<<Lit(<<"+">>), DigitsRange(1, 3), Separator, Opt(Lit(<<"(">>)),
             DigitsRange(1, 4), Opt(Lit(<<")">>)), Separator, DigitsRange(1, 4),
             Separator, DigitsRange(1, 9)>>),
       \* \(?\d{3}\)?[-.\s]?\d{3}[-.\s]?\d{4}
       Cat(<<Opt(Lit(<<"(">>)), DigitsRange(3, 3), Opt(Lit(<<")">>)), Separator,
             DigitsRange(3, 3), Separator, DigitsRange(4, 4)>>),
       \* \d{10}
       DigitsRange(10, 10) >>

RECURSIVE FirstPhone(_, _)
FirstPhone(t, k) ==
    IF k > Len(phone_patterns) THEN <<>>
    ELSE LET r == re_search(phone_patterns[k], t)
         IN  IF r.ok THEN Group0(t, r) ELSE FirstPhone(t, k + 1)

extract_phone(t) == FirstPhone(t, 1)

(***************************************************************************)
(* CVAnalyzer.extract_education                                            *)
(***************************************************************************)
EDUCATION_KEYWORDS ==
    << <<"b", "a", "c", "h", "e", "l", "o", "r">>,
       <<"b", "a", "c", "h", "e", "l", "o", "r", "'", "s">>,
       <<"b", ".", "t", "e", "c", "h">>, <<"b", ".", "e", ".">>,
       <<"b", ".", "s", "c">>, <<"b", ".", "c", "o", "m">>, <<"b", "a">>,
       <<"b", ".", "a", ".">>, <<"m", "a", "s", "t", "e", "r">>,
       <<"m", "a", "s", "t", "e", "r", "'", "s">>,
       <<"m", ".", "t", "e", "c", "h">>, <<"m", ".", "s", "c">>,
       <<"m", ".", "c", "o", "m">>, <<"m", "a">>, <<"m", ".", "a">>,
       <<"m", "b", "a">>, <<"p", "h", "d">>,
       <<"d", "o", "c", "t", "o", "r", "a", "t", "e">>,
       <<"p", "h", ".", "d">>, <<"d", "i", "p", "l", "o", "m", "a">>,
       <<"d", "e", "g", "r", "e", "e">>,
       <<"c", "e", "r", "t", "i", "f", "i", "c", "a", "t", "e">>,
       <<"u", "n", "i", "v", "e", "r", "s", "i", "t", "y">>,
       <<"c", "o", "l", "l", "e", "g", "e">>,
       <<"i", "n", "s", "t", "i", "t", "u", "t", "e">>,
       <<"s", "c", "h", "o", "o", "l">>,
       <<"c", "o", "m", "p", "u", "t", "e", "r", " ", "s", "c", "i", "e", "n", "c", "e">>,
       <<"e", "n", "g", "i", "n", "e", "e", "r", "i", "n", "g">>,
       <<"i", "n", "f", "o", "r", "m", "a", "t", "i", "o", "n", " ", "t", "e", "c", "h", "n", "o", "l", "o", "g", "y">> >>

SectionWords == {<<"e", "d", "u", "c", "a", "t", "i", "o", "n">>, <<"a", "c", "a", "d", "e", "m", "i", "c">>, <<"q", "u", "a", "l", "i", "f", "i", "c", "a", "t", "i", "o", "n">>}

SectionLines == 10     \* range(i, min(i + 10, len(lines)))
MinLineLength == 10    \* len(line.strip()) > 10
TopLines == 3          \* unique_lines[:3]

\* The line is kept as an education line.
IsEducationLine(line) ==
    /\ \E k \in 1..Len(EDUCATION_KEYWORDS) : Contains(lower(line), EDUCATION_KEYWORDS[k])
    /\ strip(line) # <<>>
    /\ Len(strip(line)) > MinLineLength

\* education_lines with the duplicates removed, order kept
RECURSIVE UniqueLines(_, _, _)
UniqueLines(lines, i, seen) ==
    IF i > Len(lines) THEN seen
    ELSE UniqueLines(lines, i + 1,
             IF IsEducationLine(lines[i])
                /\ \A k \in 1..Len(seen) : seen[k] # strip(lines[i])
             THEN Append(seen, strip(lines[i])) ELSE seen)

\* ' | '.join(lines)
RECURSIVE JoinLines(_, _)
JoinLines(lines, i) ==
    IF i > Len(lines) THEN <<>>
    ELSE (IF i > 1 THEN <<" ", "|", " ">> ELSE <<>>) \o lines[i] \o JoinLines(lines, i + 1)

extract_education(t) ==
    LET lines == split_lines(t)
        heads == {i \in 1..Len(lines) :
                     \E w \in SectionWords : Contains(lower(lines[i]), w)}
        \* the education section: the first header line and the 9 after it
        \* (splitting the section again adds an empty line, never kept)
        section ==
            IF heads = {} THEN lines
            ELSE LET i == CHOOSE m \in heads : \A n \in heads : m <= n
                     j == IF i + SectionLines - 1 < Len(lines)
                          THEN i + SectionLines - 1 ELSE Len(lines)
                 IN  SubSeq(lines, i, j)
        unique == UniqueLines(section, 1, <<>>)
    IN  JoinLines(SubSeq(unique, 1, IF Len(unique) < TopLines THEN Len(unique) ELSE TopLines), 1)

(***************************************************************************)
(* Specifications of one call of extract_skills and of one call of         *)
(* extract_experience on a text written from a few lines.                  *)
(***************************************************************************)
\* '\n'.join(lines)
RECURSIVE JoinWithNewlines(_, _)
JoinWithNewlines(lines, i) ==
    IF i > Len(lines) THEN <<>>
    ELSE IF i = Len(lines) THEN lines[i]
    ELSE lines[i] \o <<"\n">> \o JoinWithNewlines(lines, i + 1)

\* Lines of a CV that name skills: a section header followed by a longer
\* word holding a variation, two variations of one tag, a section whose
\* word "html" holds the variation "ml", a blank line, a "Label:" line, a
\* bare variation, and a word that is no variation.
SkillLines ==
    { <<"S", "k", "i", "l", "l", "s", ":", " ", "J", "a", "v", "a", "S", "c", "r", "i", "p", "t">>, <<"P", "y", "t", "h", "o", "n", " ", "a", "n", "d", " ", "D", "j", "a", "n", "g", "o">>, <<"e", "x", "p", "e", "r", "t", "i", "s", "e", ":", " ", "h", "t", "m", "l", ",", " ", "s", "q", "l">>,
      <<>>, <<"T", "o", "o", "l", "s", ":", " ", "g", "i", "t">>, <<"j", "a", "v", "a">>, <<"j", "a", "v", "a", "s", "c", "r", "i", "p", "t">> }

SkillTexts ==
    {JoinWithNewlines(ls, 1) : ls \in SeqsUpTo(SkillLines, MaxSkillLines)}

InitSkills ==
    /\ field_text \in SkillTexts
    /\ skill_list = NotCalled
    /\ experience = NotMeasured
    /\ name_found = NotNamed
    /\ ClassifyIdle
    /\ CleanIdle
    /\ ExtractIdle
    /\ OrchestratorIdle
    /\ BatchIdle

ExtractSkills ==
    /\ skill_list = NotCalled
    /\ skill_list' = extract_skills(field_text)
    /\ UNCHANGED <<field_text, experience, name_found, classifyVars, cleanVars, extractVars,
                   orchestratorVars, batchVars>>

NextSkills == ExtractSkills

SpecSkills == InitSkills /\ [][NextSkills]_vars

\* Lines of a CV that mention experience: a range, months, years with the
\* word experience, a summary section, a blank line, a date range, years,
\* a date range in the MM/YYYY format.
ExperienceLines ==
    { <<"3", "-", "5", " ", "y", "e", "a", "r", "s">>, <<"2", "4", " ", "m", "o", "n", "t", "h", "s">>, <<"5", "+", " ", "y", "e", "a", "r", "s", " ", "e", "x", "p", "e", "r", "i", "e", "n", "c", "e">>,
      <<"S", "u", "m", "m", "a", "r", "y", ":", " ", "1", "8", " ", "m", "o", "n", "t", "h", "s">>, <<>>, <<"2", "0", "1", "9", " ", "-", " ", "2", "0", "2", "1">>, <<"2", " ", "y", "e", "a", "r", "s">>,
      <<"0", "1", "/", "2", "0", "1", "9", " ", "-", " ", "0", "2", "/", "2", "0", "2", "0">> }

ExperienceTexts ==
    {JoinWithNewlines(ls, 1) : ls \in SeqsUpTo(ExperienceLines, MaxExperienceLines)}

InitExperience ==
    /\ field_text \in ExperienceTexts
    /\ skill_list = NotCalled
    /\ experience = NotMeasured
    /\ name_found = NotNamed
    /\ ClassifyIdle
    /\ CleanIdle
    /\ ExtractIdle
    /\ OrchestratorIdle
    /\ BatchIdle

ExtractExperience ==
    /\ ~experience.called
    /\ experience' = [called |-> TRUE, months |-> extract_experience(field_text)]
    /\ UNCHANGED <<field_text, skill_list, name_found, classifyVars, cleanVars, extractVars,
                   orchestratorVars, batchVars>>

NextExperience == ExtractExperience

SpecExperience == InitExperience /\ [][NextExperience]_vars

(***************************************************************************)
(* Specification of one call of extract_name.                              *)
(***************************************************************************)
\* Lines at the top of a CV: a blank line, a title, a name, a name in
\* capitals.
TopOfCv == { <<>>, <<"R", "e", "s", "u", "m", "e">>, <<"J", "a", "n", "e", " ", "D", "o", "e">>, <<"J", "O", "H", "N", " ", "R", "O", "E">> }

NameTexts ==
    {JoinWithNewlines(ls, 1) : ls \in SeqsUpTo(TopOfCv, MaxNameLines)}

InitName ==
    /\ field_text \in NameTexts
    /\ skill_list = NotCalled
    /\ experience = NotMeasured
    /\ name_found = NotNamed
    /\ ClassifyIdle
    /\ CleanIdle
    /\ ExtractIdle
    /\ OrchestratorIdle
    /\ BatchIdle

ExtractName ==
    /\ ~name_found.called
    /\ name_found' = [called |-> TRUE, name |-> extract_name(field_text)]
    /\ UNCHANGED <<field_text, skill_list, experience, classifyVars, cleanVars,
                   extractVars, orchestratorVars, batchVars>>

NextName == ExtractName

SpecName == InitName /\ [][NextName]_vars

(***************************************************************************)
(* views.upload_cv and views.process_cv: one candidate and its document.   *)
(***************************************************************************)
\* allowed_extensions of upload_cv
allowed_extensions == {DotPdf, DotDocx}

\* The row upload_cv saves: the posted name, or the file name without its
\* extension; the model fields keep their defaults.
NewCandidate(name, stem, ext) ==
    [NoCandidate EXCEPT !.exists = TRUE,
                        !.name = IF name # <<>> THEN name ELSE stem,
                        !.stem = stem, !.ext = ext]

\* upload_cv, POST: name is the stripped form field, upload the posted file
\* (<<>>-named when none was selected), small_enough the 10 MB test.
upload_cv(name, upload, small_enough) ==
    /\ ~candidate.exists
    /\ IF \/ ~upload.selected
          \/ lower(upload.ext) \notin allowed_extensions
          \/ ~small_enough
       THEN UNCHANGED <<candidate, cv_file, file_on_disk>>
       ELSE /\ candidate' = NewCandidate(name, upload.stem, upload.ext)
            /\ cv_file' = upload.content
            /\ file_on_disk' = TRUE
    /\ UNCHANGED <<categories, available, file_extension, extracted,
                   classifyVars, cleanVars, fieldVars, batchVars>>

NoTextMessage == <<"N", "o", " ", "t", "e", "x", "t", " ", "c", "o", "u", "l", "d", " ", "b", "e", " ", "e", "x", "t", "r", "a", "c", "t", "e", "d", ".", " ", "P", "o", "s", "s", "i", "b", "l", "y", " ", "a", " ", "s", "c", "a", "n", "n", "e", "d", " ", "P", "D", "F", ".">>
NoEducationMessage == <<"C", "o", "u", "l", "d", " ", "n", "o", "t", " ", "e", "x", "t", "r", "a", "c", "t", " ", "e", "d", "u", "c", "a", "t", "i", "o", "n">>
\* The documents the batch is written from: a DOCX with a skills section, a
\* scanned PDF no library reads text from, and a file of another format.
SkillsDocx ==
    [kind |-> "docx", paragraphs |-> <<<<"S", "k", "i", "l", "l", "s", ":", " ", "J", "a", "v", "a", "S", "c", "r", "i", "p", "t">>, <<"T", "o", "o", "l", "s", ":", " ", "g", "i", "t">>>>,
     cells |-> <<>>, raises |-> FALSE]

ScannedPdf ==
    [kind |-> "pdf",
     pdfplumber |-> [pages |-> << <<>> >>, raises |-> FALSE],
     pypdf2 |-> [pages |-> << <<>> >>, raises |-> FALSE],
     pdfminer |-> [text |-> <<>>, raises |-> FALSE]]

\* The six extractors of CVAnalyzer on one text.
Analyse(t) ==
    [name |-> extract_name(t), email |-> extract_email(t),
     phone |-> extract_phone(t), skills |-> extract_skills(t),
     experience_years |-> extract_experience(t),
     education |-> extract_education(t)]

\* The extractors are functions of the text alone: their results on the
\* text of SkillsDocx, raw and cleaned, are computed once.
TabulatedTexts ==
    LET raw == AppendLines(<<>>, SkillsDocx.paragraphs, 1)
    IN  {raw, clean_extracted_text(raw)}

AnalysisTable == {[text |-> t, fields |-> Analyse(t)] : t \in TabulatedTexts}

Analysis(t) ==
    IF t \in TabulatedTexts
    THEN (CHOOSE a \in AnalysisTable : a.text = t).fields
    ELSE Analyse(t)

\* Step 3 and Step 4 of process_cv: the row saved for the cleaned text
\* cv_text, a holding what the six extractors returned on it.
SaveAnalysis(c, cv_text, has_text, a) ==
    [c EXCEPT
       !.raw_text = IF has_text THEN cv_text ELSE NoTextMessage,
       !.name = IF (c.name = <<>> \/ c.name = c.stem) /\ a.name # <<>>
                THEN a.name ELSE c.name,
       !.email = IF c.email = <<>> /\ a.email # <<>>
                 THEN a.email ELSE c.email,
       !.phone = IF c.phone = <<>> /\ a.phone # <<>>
                 THEN a.phone ELSE c.phone,
       !.skills = IF has_text THEN a.skills ELSE <<>>,
       !.experience_years = IF has_text THEN a.experience_years ELSE 0,
       !.education = IF has_text THEN a.education ELSE NoEducationMessage,
       !.category = IF has_text
                    THEN categorize_candidate(
                             {a.skills[i] : i \in 1..Len(a.skills)},
                             a.experience_years)
                    ELSE "Unknown",
       !.is_processed = TRUE]

\* The row process_cv saves when extract_text returned raw, the text of the
\* document: Step 1 to Step 4 of the view.
RowFor(c, cv_text) == SaveAnalysis(c, cv_text, strip(cv_text) # <<>>, Analysis(cv_text))

ProcessedCandidate(c, raw) == RowFor(c, clean_extracted_text(raw))

\* process_cv, POST.  A missing file redirects to the upload page; an
\* exception (the ValueError of extract_text) is reported and nothing saved.
process_cv ==
    /\ candidate.exists
    /\ LET r == extract_text(cv_file, lower(candidate.ext))
       IN  IF ~file_on_disk \/ r.raised \/ r.propagated
           THEN UNCHANGED <<candidate, categories>>
           ELSE /\ candidate' = ProcessedCandidate(candidate, r.text)
                /\ categories' = categories \cup {candidate'.category}
    /\ UNCHANGED <<cv_file, file_on_disk, available, file_extension, extracted,
                   classifyVars, cleanVars, fieldVars, batchVars>>

\* The stored file disappears from the media directory.
FileLost ==
    /\ candidate.exists
    /\ file_on_disk
    /\ file_on_disk' = FALSE
    /\ UNCHANGED <<candidate, categories, cv_file, available, file_extension,
                   extracted, classifyVars, cleanVars, fieldVars, batchVars>>

(***************************************************************************)
(* Specification of the single-document path: one upload, then any number  *)
(* of processing requests.                                                 *)
(***************************************************************************)
JohnSmith == <<"J", "o", "h", "n", " ", "S", "m", "i", "t", "h">>
JohnEmail == <<"j", "o", "h", "n", "@", "x", ".", "c", "o", "m">>
FiveYears == <<"5", " ", "y", "e", "a", "r", "s", " ", "e", "x", "p", "e", "r", "i", "e", "n", "c", "e", " ", "w", "i", "t", "h", " ", "P", "y", "t", "h", "o", "n", " ", "a", "n", "d", " ", "D", "j", "a", "n", "g", "o">>

\* The paragraphs documents are written from.
CvParagraphs == {JohnSmith, JohnEmail, FiveYears}

DocxCvs ==
    [kind : {"docx"}, paragraphs : SeqsUpTo(CvParagraphs, MaxCvParagraphs),
     cells : {<<>>}, raises : {FALSE}]

CorruptDocx == [kind |-> "docx", paragraphs |-> <<>>, cells |-> <<>>, raises |-> TRUE]

\* A PDF of one page that pdfplumber reads, or of none (a scanned document).
PdfCvs ==
    [kind : {"pdf"},
     pdfplumber : [pages : SeqsUpTo(CvParagraphs, 1), raises : {FALSE}],
     pypdf2 : {[pages |-> <<>>, raises |-> FALSE]},
     pdfminer : {[text |-> <<>>, raises |-> FALSE]}]

Stem == <<"c", "v">>

Uploads ==
    [selected : {TRUE}, stem : {Stem}, ext : {DotDocx}, content : DocxCvs]
    \cup [selected : {TRUE}, stem : {Stem}, ext : Cased(DotDocx), content : {CorruptDocx}]
    \cup [selected : {TRUE}, stem : {Stem}, ext : Cased(DotPdf), content : PdfCvs]
    \cup [selected : {TRUE}, stem : {Stem}, ext : {<<".", "t", "x", "t">>}, content : {CorruptDocx}]
    \cup [selected : {FALSE}, stem : {<<>>}, ext : {<<>>}, content : {CorruptDocx}]

\* The name typed into the upload form, if any.
PostedNames == {<<>>, <<"J", "a", "n", "e", " ", "D", "o", "e">>}

Init ==
    /\ candidate = NoCandidate
    /\ categories = {}
    /\ file_on_disk = FALSE
    /\ available \in {Libraries, Libraries \ {"docx"}}
    /\ cv_file = [kind |-> "none"]
    /\ file_extension = <<>>
    /\ extracted = NotExtracted
    /\ ClassifyIdle
    /\ CleanIdle
    /\ FieldIdle
    /\ BatchIdle

Next ==
    \/ \E name \in PostedNames, upload \in Uploads, small_enough \in BOOLEAN :
           upload_cv(name, upload, small_enough)
    \/ process_cv
    \/ FileLost

Spec == Init /\ [][Next]_vars

(***************************************************************************)
(* views.categorize_candidates, views.bulk_actions and views.process_cv on *)
(* a table of candidates.  A row is the Candidate (c) with the document    *)
(* stored for it (file, on_disk); branch records which branch of a view     *)
(* wrote the row last.                                                     *)
(***************************************************************************)
Row(c, file) ==
    [c |-> c, file |-> file, on_disk |-> TRUE, branch |-> "none"]

\* Candidate.objects.filter(is_processed=False)
Unprocessed(rows) == {i \in 1..Len(rows) : ~rows[i].c.is_processed}

BulkNoTextMessage == <<"N", "o", " ", "t", "e", "x", "t", " ", "c", "o", "u", "l", "d", " ", "b", "e", " ", "e", "x", "t", "r", "a", "c", "t", "e", "d">>

BulkCategory(a) ==
    categorize_candidate({a.skills[i] : i \in 1..Len(a.skills)}, a.experience_years)

\* The analysed branch of categorize_candidates: the row saved for the text
\* as extracted, a holding what the extractors returned on it.
BulkAnalysed(row, raw, a) ==
    [row EXCEPT !.c.raw_text = raw,
                !.c.skills = a.skills,
                !.c.experience_years = a.experience_years,
                !.c.education = a.education,
                !.c.category = BulkCategory(a),
                !.c.is_processed = TRUE,
                !.branch = "analysed"]

\* The branches of the try statement once extract_text has returned raw.
BulkSave(row, raw) ==
    IF strip(raw) # <<>>
    THEN [raised |-> FALSE,
          row |-> BulkAnalysed(row, raw, Analysis(raw))]
    ELSE [raised |-> FALSE,
          row |-> [row EXCEPT !.c.raw_text = BulkNoTextMessage,
                              !.c.category = "Unknown",
                              !.c.is_processed = TRUE,
                              !.branch = "degraded"]]

\* The body of the try statement of categorize_candidates for one candidate,
\* r being what extract_text does on its file: the row it saves, or raised
\* when an exception leaves the body (nothing was assigned before it).
BulkTry(row, r) ==
    IF ~row.on_disk
    THEN [raised |-> FALSE,
          row |-> [row EXCEPT !.c.is_processed = TRUE, !.branch = "no_file"]]
    ELSE IF r.raised \/ r.propagated
    THEN [raised |-> TRUE, row |-> row]
    ELSE BulkSave(row, r.text)

\* An except block that counts the error and leaves the candidate
\* unprocessed.
BulkExcept_NoMark(row) == [row EXCEPT !.branch = "error"]

\* "except Exception as e: error_count += 1; candidate.is_processed = True;
\*  candidate.save()"
BulkExcept(row) ==
    [row EXCEPT !.c.is_processed = TRUE, !.branch = "error"]

\* Category.objects.get_or_create(name=category_name) of the saved row.
Created(row) == IF row.branch \in {"analysed", "degraded"} THEN {row.c.category} ELSE {}

\* One iteration without the try statement: the first exception ends the
\* request.
BulkIteration_NoTry(rows, i, n, t) ==
    IF t.raised
    THEN [rows |-> rows, n |-> n, stop |-> TRUE]
    ELSE [rows |-> [rows EXCEPT ![i] = t.row],
          n |-> [n EXCEPT !.categorized_count = @ + 1,
                          !.created = @ \cup Created(t.row)],
          stop |-> FALSE]

\* One iteration of "for candidate in unprocessed_candidates: try: ...
\* except ...": t is the outcome of the try body for row i, n holds
\* categorized_count, error_count and the categories created so far.
BulkIteration(rows, i, n, t) ==
    IF t.raised
    THEN [rows |-> [rows EXCEPT ![i] = BulkExcept(rows[i])],
          n |-> [n EXCEPT !.error_count = @ + 1],
          stop |-> FALSE]
    ELSE [rows |-> [rows EXCEPT ![i] = t.row],
          n |-> [n EXCEPT !.categorized_count = @ + 1,
                          !.created = @ \cup Created(t.row)],
          stop |-> FALSE]

\* The loop state after one iteration has produced step.
BulkAdvance(s, step) ==
    [rows |-> step.rows, n |-> step.n, stop |-> step.stop, i |-> s.i + 1]

\* The loop from row i on, over the candidates not processed when it began.
RECURSIVE BulkLoop(_)
BulkLoop(s) ==
    IF s.stop \/ s.i > Len(s.rows) THEN s
    ELSE IF s.rows[s.i].c.is_processed THEN BulkLoop([s EXCEPT !.i = @ + 1])
    ELSE BulkLoop(BulkAdvance(s,
             BulkIteration(s.rows, s.i, s.n,
                 BulkTry(s.rows[s.i],
                         extract_text(s.rows[s.i].file, lower(s.rows[s.i].c.ext))))))

\* The end of categorize_candidates: done is the loop state it ends in.
\* categorized_count and error_count are locals of the request: bulk holds
\* them after it, and none after another request.
BulkReport(done) ==
    /\ candidates' = done.rows
    /\ categories' = categories \cup done.n.created
    /\ bulk' = [categorized_count |-> done.n.categorized_count,
                error_count |-> done.n.error_count,
                reported |-> TRUE]

\* categorize_candidates, POST.
categorize_candidates ==
    /\ BulkReport(BulkLoop([rows |-> candidates, i |-> 1, stop |-> FALSE,
                            n |-> [categorized_count |-> 0, error_count |-> 0,
                                   created |-> {}]]))
    /\ UNCHANGED <<candidate, file_on_disk, classifyVars, cleanVars, fieldVars,
                   extractVars>>

\* The row with the candidate c that process_cv saved for it.
Branched(row, c) ==
    [row EXCEPT !.c = c,
                !.branch = IF c.category = "Unknown" THEN "degraded" ELSE "analysed"]

\* What process_cv does to a row, r being what extract_text does on its
\* file: nothing without the file or after an exception, else the saved row.
ProcessedRow(row, r) ==
    IF ~row.on_disk \/ r.raised \/ r.propagated
    THEN row
    ELSE Branched(row, ProcessedCandidate(row.c, r.text))

\* process_cv, POST, for the candidate of row i.
ProcessRow(i) ==
    /\ i \in 1..Len(candidates)
    /\ candidates' =
          [candidates EXCEPT ![i] =
              ProcessedRow(@, extract_text(@.file, lower(@.c.ext)))]
    /\ categories' = IF candidates'[i] = candidates[i]
                     THEN categories
                     ELSE categories \cup {candidates'[i].c.category}
    /\ bulk' = NoBulk
    /\ UNCHANGED <<candidate, file_on_disk, classifyVars, cleanVars, fieldVars,
                   extractVars>>

\* bulk_actions, POST with action 'reprocess' and the ids of some candidates.
bulk_actions_reprocess(ids) ==
    /\ \E i \in ids : candidates[i].c.is_processed
    /\ candidates' = [i \in 1..Len(candidates) |->
                         IF i \in ids
                         THEN [candidates[i] EXCEPT !.c.is_processed = FALSE]
                         ELSE candidates[i]]
    /\ bulk' = NoBulk
    /\ UNCHANGED <<orchestratorVars, classifyVars, cleanVars, fieldVars,
                   extractVars>>

\* The documents of the table: a file of another format with a stored name
\* ending in .txt, a DOCX of two paragraphs, a scanned PDF.
BatchUploads ==
    << [stem |-> <<"n", "o", "t", "e", "s">>, ext |-> <<".", "t", "x", "t">>, content |-> CorruptDocx],
       [stem |-> Stem, ext |-> DotDocx, content |-> SkillsDocx],
       [stem |-> <<"s", "c", "a", "n">>, ext |-> upper(DotPdf), content |-> ScannedPdf] >>

\* Documents enter the table in the order of BatchUploads: the loop of
\* categorize_candidates treats each row alone, and this order puts the
\* documents that fail before the others.
InOrder(u) ==
    \A i \in 1..Len(candidates) :
        \E j, k \in 1..Len(BatchUploads) :
            /\ j <= k
            /\ BatchUploads[j].stem = candidates[i].c.stem
            /\ BatchUploads[k] = u

\* upload_cv for one more candidate: only .pdf and .docx files are stored.
UploadRow(u) ==
    /\ Len(candidates) < MaxCandidates
    /\ lower(u.ext) \in allowed_extensions
    /\ InOrder(u)
    /\ candidates' = Append(candidates, Row(NewCandidate(<<>>, u.stem, u.ext), u.content))
    /\ bulk' = NoBulk
    /\ UNCHANGED <<orchestratorVars, classifyVars, cleanVars, fieldVars,
                   extractVars>>

\* A candidate added through the admin site, which checks no extension.
AdminAdd(u) ==
    /\ Len(candidates) < MaxCandidates
    /\ lower(u.ext) \notin allowed_extensions
    /\ InOrder(u)
    /\ candidates' = Append(candidates, Row(NewCandidate(<<>>, u.stem, u.ext), u.content))
    /\ bulk' = NoBulk
    /\ UNCHANGED <<orchestratorVars, classifyVars, cleanVars, fieldVars,
                   extractVars>>

\* The change form of the admin site stores another document, a scanned
\* PDF, as the cv_file of a candidate analysed before.
ReplaceFile(i) ==
    /\ i \in 1..Len(candidates)
    /\ candidates[i].branch = "analysed"
    /\ candidates[i].c.is_processed
    /\ candidates' = [candidates EXCEPT ![i].file = ScannedPdf, ![i].c.ext = DotPdf]
    /\ bulk' = NoBulk
    /\ UNCHANGED <<orchestratorVars, classifyVars, cleanVars, fieldVars,
                   extractVars>>

\* The stored file of a candidate never processed disappears from the media
\* directory.
FileGone(i) ==
    /\ i \in 1..Len(candidates)
    /\ candidates[i].on_disk
    /\ candidates[i].branch = "none"
    /\ candidates' = [candidates EXCEPT ![i].on_disk = FALSE]
    /\ UNCHANGED <<bulk, orchestratorVars, classifyVars, cleanVars, fieldVars,
                   extractVars>>

InitBatch ==
    /\ candidates = <<>>
    /\ bulk = NoBulk
    /\ available = Libraries
    /\ cv_file = [kind |-> "none"]
    /\ file_extension = <<>>
    /\ extracted = NotExtracted
    /\ OrchestratorIdle
    /\ ClassifyIdle
    /\ CleanIdle
    /\ FieldIdle

NextBatch ==
    \/ \E k \in 1..Len(BatchUploads) : UploadRow(BatchUploads[k])
    \/ \E k \in 1..Len(BatchUploads) : AdminAdd(BatchUploads[k])
    \/ \E i \in 1..MaxCandidates : ProcessRow(i)
    \/ categorize_candidates
    \/ \E i \in 1..Len(candidates) : bulk_actions_reprocess({i})
    \/ \E i \in 1..MaxCandidates : ReplaceFile(i)
    \/ \E i \in 1..MaxCandidates : FileGone(i)

SpecBatch == InitBatch /\ [][NextBatch]_vars

(***************************************************************************)
(* Claims about categorize_candidate, checked under SpecClassify.          *)
(***************************************************************************)
Returned == category # NotCalled

NoRuleMatches(s, e) == \A i \in 1..Len(RuleNames) : ~RuleCondition(i, s, e)

\* C1: the returned name is that of the first rule, in the fixed order, whose
\* predicate is true; a later rule's name is never returned while an earlier
\* rule's predicate holds.
C1_FirstMatchWins ==
    Returned =>
        /\ \A i \in 1..Len(RuleNames) :
              ( /\ RuleCondition(i, skills, experience_years)
                /\ \A j \in 1..(i - 1) : ~RuleCondition(j, skills, experience_years) )
              => category = RuleNames[i]
        /\ \A i \in 1..Len(RuleNames) :
              category = RuleNames[i]
              => \A j \in 1..(i - 1) : ~RuleCondition(j, skills, experience_years)

\* Two rules match (Python Developer and Data Scientist) and the earlier won.
C1_Witness ==
    /\ category = "Python Developer"
    /\ DataScientist(skills, experience_years)

\* C2: every call returns a non-empty string that is one of the 11 rule names
\* or one of the 4 fallback names, the empty collection included.
C2_Total ==
    Returned =>
        /\ category # ""
        /\ category \in {RuleNames[i] : i \in 1..Len(RuleNames)} \cup FallbackNames

\* The empty collection with 5 years or more was classified.
C2_Witness ==
    /\ skills = {}
    /\ experience_years >= 5 * Year
    /\ category = "Senior Professional"

\* C3: when no rule predicate is true the result is decided by experience
\* alone (0, below 2, below 5, otherwise), and a fallback name is returned
\* only when no rule predicate is true.
C3_FallbackLadder ==
    Returned =>
        /\ NoRuleMatches(skills, experience_years) =>
              /\ experience_years = 0 => category = "Fresher"
              /\ (0 < experience_years /\ experience_years < 2 * Year)
                    => category = "Junior Developer"
              /\ (2 * Year <= experience_years /\ experience_years < 5 * Year)
                    => category = "Mid-Level Developer"
              /\ experience_years >= 5 * Year => category = "Senior Professional"
        /\ category \in FallbackNames => NoRuleMatches(skills, experience_years)

\* A non-empty collection that no rule matches, at exactly 2 years.
C3_Witness ==
    /\ skills # {}
    /\ experience_years = 2 * Year
    /\ category = "Mid-Level Developer"

\* C4: a collection holding python and one of django, flask is a Senior
\* Python Developer from 5 years on and a Python Developer below, whatever
\* else it holds.
C4_PythonFramework ==
    (Returned /\ "python" \in skills /\ ("django" \in skills \/ "flask" \in skills)) =>
        category = IF experience_years >= 5 * Year
                   THEN "Senior Python Developer" ELSE "Python Developer"

\* python and flask together with tags of later rules, at exactly 5 years.
C4_Witness ==
    /\ {"python", "flask", "ml", "excel"} \subseteq skills
    /\ experience_years = 5 * Year
    /\ category = "Senior Python Developer"

\* C5: a collection holding data_analysis, or excel and sql, that satisfies
\* none of rules 1-3 is a Data Analyst at every experience, 0 included.
C5_DataAnalystAnyExperience ==
    ( /\ Returned
      /\ ("data_analysis" \in skills \/ ("excel" \in skills /\ "sql" \in skills))
      /\ \A i \in 1..3 : ~RuleCondition(i, skills, experience_years) )
    => category = "Data Analyst"

\* {excel, sql} with no experience at all.
C5_Witness ==
    /\ skills = {"excel", "sql"}
    /\ experience_years = 0
    /\ category = "Data Analyst"

(***************************************************************************)
(* Claims about clean_extracted_text, checked under SpecClean.             *)
(***************************************************************************)
\* C7: clean_extracted_text is idempotent: cleaning the cleaned text gives
\* the cleaned text.
C7_Idempotent ==
    cleaned_again # NotCalled => cleaned_again = cleaned

\* C8: the cleaned text never holds two whitespace characters in a row.
C8_NoWhitespaceRun ==
    cleaned # NotCalled =>
        \A i \in 1..(Len(cleaned) - 1) :
            ~(IsSpace(cleaned[i]) /\ IsSpace(cleaned[i + 1]))

\* A character that is still visible after cleaning.
IsVisible(c) == IsKept(c) /\ ~IsSpace(c)

\* The number of line endings (\r\n, \r or \n) in a stretch of text.
LineEndings(seg) ==
    Cardinality({k \in 1..Len(seg) :
        \/ seg[k] = "\r"
        \/ seg[k] = "\n" /\ (k = 1 \/ seg[k - 1] # "\r")})

\* Two non-blank lines with exactly one line ending between them.
HasAdjacentLines(t) ==
    \E i \in 1..Len(t) : \E j \in (i + 1)..Len(t) :
        /\ IsVisible(t[i]) /\ IsVisible(t[j])
        /\ LineEndings(SubSeq(t, i + 1, j - 1)) = 1

\* Two non-blank lines with two or more blank lines between them.
HasBlankLineRun(t) ==
    \E i \in 1..Len(t) : \E j \in (i + 1)..Len(t) :
        /\ IsVisible(t[i]) /\ IsVisible(t[j])
        /\ \A k \in (i + 1)..(j - 1) : ~IsVisible(t[k])
        /\ LineEndings(SubSeq(t, i + 1, j - 1)) >= 3

\* C9: the line structure survives cleaning: a line ending between two
\* non-blank lines is a single "\n" of the output, and a run of two or more
\* blank lines is exactly one blank line ("\n\n", never three in a row).
C9_LineStructureKept ==
    cleaned # NotCalled =>
        /\ HasAdjacentLines(text) =>
              \E k \in 2..(Len(cleaned) - 1) :
                  cleaned[k] = "\n" /\ cleaned[k - 1] # "\n" /\ cleaned[k + 1] # "\n"
        /\ HasBlankLineRun(text) =>
              /\ \E k \in 1..(Len(cleaned) - 1) :
                    cleaned[k] = "\n" /\ cleaned[k + 1] = "\n"
              /\ \A k \in 1..(Len(cleaned) - 2) :
                    ~(cleaned[k] = "\n" /\ cleaned[k + 1] = "\n" /\ cleaned[k + 2] = "\n")

(***************************************************************************)
(* Claim about the whole pipeline, checked under Spec.                     *)
(***************************************************************************)
\* The DOCX of the claim: three paragraphs, no table.
JohnSmithDocx ==
    [kind |-> "docx", paragraphs |-> <<JohnSmith, JohnEmail, FiveYears>>,
     cells |-> <<>>, raises |-> FALSE]

\* C6: processing the DOCX with the paragraphs "John Smith", "john@x.com",
\* "5 years experience with Python and Django" (python-docx installed, no
\* name typed into the form) gives name "John Smith", email "john@x.com",
\* skills {python, django}, experience 5.0 and category "Senior Python
\* Developer".
C6_EndToEnd ==
    ( /\ candidate.is_processed
      /\ cv_file = JohnSmithDocx
      /\ "docx" \in available
      /\ candidate.name \notin PostedNames )
    => /\ candidate.name = JohnSmith
       /\ candidate.email = JohnEmail
       /\ {candidate.skills[i] : i \in 1..Len(candidate.skills)} = {"python", "django"}
       /\ candidate.experience_years = 5 * Year
       /\ candidate.category = "Senior Python Developer"

CanonicalCollections == SUBSET {SkillTags[i] : i \in 1..Len(SkillTags)}

\* The categories the pipeline can give: what categorize_candidate returns
\* on a list of canonical tags.
PipelineCategories ==
    {categorize_candidate(s, e) :
        s \in CanonicalCollections, e \in 0..MaxExperienceMonths}

\* C25: each of the 11 rule categories is reachable through the pipeline: a
\* rule name categorize_candidate returns for some skill collection is also
\* returned for a list of canonical tags and some experience.
C25_NoDeadRule ==
    (\E i \in 1..Len(RuleNames) : category = RuleNames[i])
        => category \in PipelineCategories

(***************************************************************************)
(* Claims about the two extractors, checked under SpecExtract.             *)
(***************************************************************************)
PdfLibraries == <<"pdfplumber", "PyPDF2", "pdfminer">>

\* The file extract_text_from_pdf was called on is a PDF.
PdfCalled == extracted.extractor = "pdf" /\ cv_file.kind = "pdf"

OwnText(f, name) ==
    IF name = "pdfplumber" THEN AppendPages(<<>>, f.pdfplumber.pages, 1)
    ELSE IF name = "PyPDF2" THEN AppendPages(<<>>, f.pypdf2.pages, 1)
    ELSE f.pdfminer.text

Produced(f, name) ==
    /\ name \in available
    /\ ~LibraryRaises(f, name)
    /\ strip(OwnText(f, name)) # <<>>

\* C12: if every PDF strategy raises or yields no text, extract_text_from_pdf
\* returns the empty string, also when a strategy had read text from some
\* pages before it raised.  (Stated here for a result that is at most blank.)
C12_AllFailEmpty ==
    ( /\ PdfCalled
      /\ \A k \in 1..3 : ~Produced(cv_file, PdfLibraries[k]) )
    => strip(extracted.text) = <<>>

\* C20: the strategies are tried in the order pdfplumber, PyPDF2, pdfminer;
\* an installed strategy is attempted exactly when every earlier strategy
\* raised or produced no text, whether or not an earlier one raised, and
\* none is attempted after one produced text.
C20_StrategyOrder ==
    PdfCalled =>
        /\ \A k \in 1..3 :
              (\E i \in 1..Len(extracted.attempted) :
                   extracted.attempted[i] = PdfLibraries[k])
              <=> ( /\ PdfLibraries[k] \in available
                    /\ \A j \in 1..(k - 1) : ~Produced(cv_file, PdfLibraries[j]) )
        /\ \A i, j \in 1..Len(extracted.attempted) :
              i < j => \E a, b \in 1..3 :
                          /\ a < b
                          /\ extracted.attempted[i] = PdfLibraries[a]
                          /\ extracted.attempted[j] = PdfLibraries[b]

\* C24: the text extract_text_from_pdf returns is empty or is what one
\* installed strategy read from the document by itself: the text one
\* strategy appended, before it raised or without producing any, is never
\* followed by the text of a later strategy.
C24_OneStrategy ==
    PdfCalled =>
        \/ extracted.text = <<>>
        \/ \E k \in 1..3 :
              /\ PdfLibraries[k] \in available
              /\ extracted.text = OwnText(cv_file, PdfLibraries[k])

(***************************************************************************)
(* Claims about extract_skills, checked under SpecSkills.                  *)
(***************************************************************************)
TagIndex(tag) == CHOOSE i \in 1..Len(SkillTags) : SkillTags[i] = tag

\* Some variation of the tag stands in the text as a whole word.
WholeWordTag(tag) ==
    \E i \in 1..Len(SkillTags) :
        /\ SkillTags[i] = tag
        /\ \E v \in 1..Len(SkillVariations[i]) :
               WholeWordIn(lower(field_text), SkillVariations[i][v])

\* C13: extract_skills records a tag only when one of its variations occurs
\* as a whole word, in the full-text scan and in the re-scan of a captured
\* skills / technical skills / expertise section alike; "javascript" in a
\* skills section does not yield the tag java.
C13_WholeWordOnly ==
    skill_list # NotCalled =>
        \A k \in 1..Len(skill_list) : WholeWordTag(skill_list[k])

\* C14: the list extract_skills returns holds only keys of SKILL_KEYWORDS,
\* holds no tag twice, and is in order of first discovery: the tags of the
\* full-text scan in vocabulary order, then the tags only the section
\* re-scan found.
C14_CanonicalOrdered ==
    skill_list # NotCalled =>
        /\ \A k \in 1..Len(skill_list) :
              /\ \E i \in 1..Len(SkillTags) : SkillTags[i] = skill_list[k]
              /\ skill_list[k] \notin RuleOnlyTags
        /\ \A j, k \in 1..Len(skill_list) : j # k => skill_list[j] # skill_list[k]
        /\ \A i \in 1..Len(SkillTags) :
              WholeWordTag(SkillTags[i]) =>
                  \E k \in 1..Len(skill_list) : skill_list[k] = SkillTags[i]
        /\ \A j, k \in 1..Len(skill_list) :
              j < k =>
                 /\ WholeWordTag(skill_list[k]) => WholeWordTag(skill_list[j])
                 /\ (WholeWordTag(skill_list[j]) /\ WholeWordTag(skill_list[k]))
                       => TagIndex(skill_list[j]) < TagIndex(skill_list[k])

\* Two tags of the full-text scan, then one only the section re-scan found;
\* the section re-scan met javascript a second time.
C14_Witness ==
    /\ field_text = <<"S", "k", "i", "l", "l", "s", ":", " ", "J", "a", "v", "a", "S", "c", "r", "i", "p", "t", "\n", "T", "o", "o", "l", "s", ":", " ", "g", "i", "t">>
    /\ skill_list # NotCalled
    /\ skill_list = <<"javascript", "devops", "java">>

(***************************************************************************)
(* Claims about extract_experience, checked under SpecExperience.          *)
(***************************************************************************)
\* C15: for a text whose only experience mention is a range "N-M years",
\* extract_experience returns the mean (N+M)/2; "3-5 years" gives 4.0.
C15_RangeMean ==
    \A n, m \in Digits :
        ( /\ experience.called
          /\ field_text = <<n, "-", m>> \o <<" ", "y", "e", "a", "r", "s">> )
        => 2 * experience.months = (DigitValue(n) + DigitValue(m)) * Year

\* C16: extract_experience returns the largest of the values collected from
\* the numeric patterns, the date ranges and the summary section, and 0.0
\* when none was collected; the result is never negative and never the sum
\* of several mentions.
C16_Maximum ==
    experience.called =>
        LET found == years_found(field_text)
        IN  /\ experience.months >= 0
            /\ found = <<>> => experience.months = 0
            /\ found # <<>> =>
                  /\ \E i \in 1..Len(found) : found[i] = experience.months
                  /\ \A i \in 1..Len(found) : found[i] <= experience.months

\* Two mentions of different value: the larger one is returned.
C16_Witness ==
    /\ field_text = <<"2", "4", " ", "m", "o", "n", "t", "h", "s", "\n", "5", "+", " ", "y", "e", "a", "r", "s", " ", "e", "x", "p", "e", "r", "i", "e", "n", "c", "e">>
    /\ experience.called
    /\ experience.months = 5 * Year

\* Lines whose only mention of experience counts months, with the months
\* they mention.
MonthMentions ==
    { [line |-> <<"2", "4", " ", "m", "o", "n", "t", "h", "s">>, months |-> 24],
      [line |-> <<"S", "u", "m", "m", "a", "r", "y", ":", " ", "1", "8", " ", "m", "o", "n", "t", "h", "s">>, months |-> 18],
      [line |-> <<>>, months |-> 0] }

\* C21: for a text whose mentions of experience all count months, inside a
\* summary section or outside, extract_experience returns the largest
\* mention divided by 12: "N months" contributes N/12 in the summary
\* re-scan as in the scan of the full text.
C21_SummaryMonths ==
    \A ms \in SeqsUpTo(MonthMentions, MaxExperienceLines) :
        ( /\ experience.called
          /\ field_text = JoinWithNewlines([i \in 1..Len(ms) |-> ms[i].line], 1) )
        => experience.months = MaxOf([i \in 1..Len(ms) |-> ms[i].months])

\* Lines that hold one date range each, in the YYYY-YYYY and in the
\* MM/YYYY-MM/YYYY format, and nothing else.
DateRangeLines == { <<"2", "0", "1", "9", " ", "-", " ", "2", "0", "2", "1">>, <<"0", "1", "/", "2", "0", "1", "9", " ", "-", " ", "0", "2", "/", "2", "0", "2", "0">> }

\* C22: for a text of date ranges alone, extract_experience returns twice
\* the number of ranges when the text holds two or more of them, whatever
\* their formats, and 0.0 when it holds fewer: the only value collected is
\* the candidate 2 x (number of ranges found).
C22_DateRanges ==
    \A ls \in SeqsUpTo(DateRangeLines, MaxExperienceLines) :
        ( /\ experience.called
          /\ field_text = JoinWithNewlines(ls, 1) )
        => experience.months = IF Len(ls) >= 2 THEN 2 * Len(ls) * Year ELSE 0

(***************************************************************************)
(* Claims about extract_name, checked under SpecName.                      *)
(***************************************************************************)
\* The lines of the text that are not blank, stripped, in order.
NonBlankLines(t) ==
    LET stripped == [i \in 1..Len(split_lines(t)) |-> strip(split_lines(t)[i])]
    IN  SelectSeq(stripped, LAMBDA l : l # <<>>)

\* C23: extract_name returns the first of the first 5 non-blank lines of
\* the text that is shorter than 50 characters, holds no digit, is not all
\* upper case and begins with no non-name prefix, and the empty string when
\* none of these 5 lines qualifies; blank lines do not count towards the 5.
C23_FirstFiveNonBlank ==
    name_found.called =>
        LET lines == NonBlankLines(field_text)
            good  == {i \in 1..Len(lines) : i <= NameLines /\ LooksLikeName(lines[i])}
        IN  name_found.name =
                IF good = {} THEN <<>>
                ELSE lines[CHOOSE i \in good : \A j \in good : i <= j]

\* C17: a candidate whose row was last written by a degraded branch, of
\* process_cv or of categorize_candidates, has category "Unknown", no
\* skills, experience 0 and an empty education, also after reprocessing.
C17_DegradedDefaults ==
    \A i \in 1..Len(candidates) :
        candidates[i].branch = "degraded" =>
            /\ candidates[i].c.category = "Unknown"
            /\ candidates[i].c.skills = <<>>
            /\ candidates[i].c.experience_years = 0
            /\ candidates[i].c.education = <<>>

\* The candidates whose try body raises in categorize_candidates: the file
\* is there and extract_text rejects its format.
Failing(rows) ==
    {i \in Unprocessed(rows) :
        rows[i].on_disk /\ lower(rows[i].c.ext) \notin {DotPdf, DotDocx}}

\* C18: a categorize_candidates request leaves every candidate processed,
\* counts one error for each failing candidate and one categorization for
\* each other candidate that was unprocessed at its start, so the two
\* counters add up to the number of candidates unprocessed at the start.
C18_BatchIsolation ==
    [][bulk'.reported =>
          /\ \A i \in 1..Len(candidates') : candidates'[i].c.is_processed
          /\ bulk'.error_count = Cardinality(Failing(candidates))
          /\ bulk'.categorized_count =
                 Cardinality(Unprocessed(candidates) \ Failing(candidates))
          /\ \A i \in Unprocessed(candidates) \ Failing(candidates) :
                 candidates'[i].branch \in {"analysed", "degraded", "no_file"}
          /\ bulk'.categorized_count + bulk'.error_count =
                 Cardinality(Unprocessed(candidates))]_vars

\* A request that met a failing candidate first and categorized another
\* after it.
C18_Witness ==
    /\ Len(candidates) = 2
    /\ bulk.reported
    /\ bulk.error_count = 1
    /\ bulk.categorized_count = 1
    /\ candidates[1].branch = "error"
    /\ candidates[2].branch = "analysed"

\* What the extractors and the classifier give on the normalized text of
\* the document of a row.
Normalized(row) ==
    Analysis(clean_extracted_text(extract_text(row.file, lower(row.c.ext)).text))

\* C19: a candidate analysed by either path holds the skills, the
\* experience and the category computed on the output of
\* clean_extracted_text for its document.
C19_NormalizedFirst ==
    \A i \in 1..Len(candidates) :
        (candidates[i].branch = "analysed" /\ candidates[i].file = SkillsDocx) =>
            /\ candidates[i].c.skills = Normalized(candidates[i]).skills
            /\ candidates[i].c.experience_years =
                   Normalized(candidates[i]).experience_years
            /\ candidates[i].c.category = BulkCategory(Normalized(candidates[i]))

C27_CountedHaveCategory ==
    [][ bulk'.reported =>
           bulk'.categorized_count =
               Cardinality({i \in Unprocessed(candidates) :
                               candidates'[i].branch \in {"analysed", "degraded"}})
      ]_vars

====
